---- MODULE Spec2Model ----
(***************************************************************************)
(* A model of the timetable generator: the Hour clock type of              *)
(* timetable/utils.py and the line-oriented parser of                      *)
(* timetable/tt_parser.py.                                                 *)
(*                                                                         *)
(* Strings are sequences of one-character strings, so that len(), "in",    *)
(* split(), partition() and strip() are computed and not assumed.  The one *)
(* lexical step that is tabulated is the regular expression get_lesson:    *)
(* LessonTable lists, for each lesson line of the input alphabet, the      *)
(* groups the expression captures on it.                                   *)
(***************************************************************************)
EXTENDS Integers, Sequences, FiniteSets, TLC

VARIABLES
    lint,              \* TimetableParser.lint
    data,              \* the lines of the input read so far (i = Len(data))
    in_config,         \* TimetableParser.in_config
    config,            \* TimetableParser.config, a dict
    current_day_name,  \* TimetableParser.current_day_name (None or a string)
    current_day,       \* TimetableParser.current_day: 0 for None, else the
                       \* position in days of the Day object it refers to
    days,              \* TimetableParser.timetable.days
    tt,                \* timetable.title, left_week, right_week
    settings,          \* TimetableParser.settings (the fields the parser sets)
    warned,            \* the ParseWarnings emitted so far, in order
    pc,                \* "parsing", "returned" or "raised"
    err,               \* the exception that ended the parse, if any
    taken,             \* for each line read, the parser method that took it
    hop,               \* Hour calculator: the last operation applied
    hin,               \* Hour calculator: its operands
    hout               \* Hour calculator: the total of the resulting Hour

pvars == <<lint, data, in_config, config, current_day_name, current_day,
           days, tt, settings, warned, pc, err, taken>>
hvars == <<hop, hin, hout>>
vars == <<pvars, hvars>>

(***************************************************************************)
(* Bounds of the model.                                                    *)
(***************************************************************************)
MaxLines == 6       \* lines of input text
MaxSkipped == 1     \* blank or comment lines among them
MaxRaw == 2         \* raw totals range over MaxRaw days either side of 0
MaxHourArg == 25    \* hour arguments range over -MaxHourArg..MaxHourArg
MaxMinuteArg == 61  \* minute arguments range over -MaxMinuteArg..MaxMinuteArg
MaxOperand == 3     \* right operands lie within MaxOperand minutes of midnight
MaxScalar == 3      \* scalar factors range over -MaxScalar..MaxScalar
MaxInterval == 30   \* rounding intervals: 1..MaxInterval minutes, whole hours
MaxOperands == 3    \* Pause.intersection is given at most MaxOperands pauses
MaxExplicit == 1    \* explicit pauses of the day asked whether it contains x
MaxDays == 3        \* days of a PausesContainer
MaxObjs == 3        \* settings objects given to Settings.merge
MaxAxisDays == 2    \* days of a rendered timetable

(***************************************************************************)
(* Strings.                                                                *)
(***************************************************************************)
None == <<"None">>          \* Python's None; no string is equal to it

Min(S) == CHOOSE x \in S : \A y \in S : x <= y

\* s[a:b] with Python's 0-based, end-exclusive bounds given 1-based inclusive
Slice(s, a, b) == [k \in 1..(IF b >= a THEN b - a + 1 ELSE 0) |-> s[a + k - 1]]

\* position of the first c in s, or 0
Find(s, c) ==
    IF \E k \in 1..Len(s) : s[k] = c
    THEN Min({k \in 1..Len(s) : s[k] = c})
    ELSE 0

\* c in s
Contains(s, c) == Find(s, c) # 0

\* s.partition(c): <<head, sep, tail>>
partition(s, c) ==
    LET k == Find(s, c) IN
    IF k = 0 THEN <<s, <<>>, <<>>>>
    ELSE <<Slice(s, 1, k - 1), <<c>>, Slice(s, k + 1, Len(s))>>

\* s.split(c, 1)
split1(s, c) ==
    LET k == Find(s, c) IN
    IF k = 0 THEN <<s>>
    ELSE <<Slice(s, 1, k - 1), Slice(s, k + 1, Len(s))>>

\* s.strip()
strip(s) ==
    LET keep == {k \in 1..Len(s) : s[k] # " "} IN
    IF keep = {} THEN <<>>
    ELSE Slice(s, Min(keep), CHOOSE k \in keep : \A j \in keep : j <= k)

Digit == [c \in {"0", "1", "2", "3", "4", "5", "6", "7", "8", "9"} |->
            CASE c = "0" -> 0 [] c = "1" -> 1 [] c = "2" -> 2 [] c = "3" -> 3
              [] c = "4" -> 4 [] c = "5" -> 5 [] c = "6" -> 6 [] c = "7" -> 7
              [] c = "8" -> 8 [] c = "9" -> 9]

\* float(s) / int(s) of a string of decimal digits
RECURSIVE ParseNat(_)
ParseNat(s) ==
    IF Len(s) = 0 THEN 0
    ELSE 10 * ParseNat(Slice(s, 1, Len(s) - 1)) + Digit[s[Len(s)]]

\* s.lower(), on the letters the input alphabet uses
lower(s) == [k \in 1..Len(s) |->
                CASE s[k] = "T" -> "t" [] s[k] = "R" -> "r" [] s[k] = "U" -> "u"
                  [] s[k] = "E" -> "e" [] s[k] = "A" -> "a" [] s[k] = "B" -> "b"
                  [] s[k] = "M" -> "m" [] OTHER -> s[k]]

(***************************************************************************)
(* Hour (utils.py).  An Hour is its attribute total.                       *)
(***************************************************************************)
\* the mutant of HourFromTotal: C-style truncating remainder
HourFromTotalTruncating(raw) ==
    IF raw >= 0 THEN raw % (24 * 60) ELSE 0 - ((0 - raw) % (24 * 60))

\* Hour(raw, True): self.total = int(hour % (24 * 60))
HourFromTotal(raw) == raw % (24 * 60)

\* Hour(hour, minute) with numbers: total = hour * 60 + minute, then the modulo
HourFromPair(hour, minute) == (0 + hour * 60 + minute) % (24 * 60)

\* Hour(other) with other an Hour: the total is copied
HourFromHour(other) == other

\* Hour("H:MM") and Hour("HhMM"); NoHour when the string has neither separator
NoHour == 0 - 1
HourFromString(s) ==
    LET p1 == split1(s, ":")
        parts == IF Len(p1) < 2 THEN split1(s, "h") ELSE p1
    IN  IF Len(parts) < 2 THEN NoHour
        ELSE HourFromPair(ParseNat(parts[1]), ParseNat(parts[2]))

\* the mutant of Hour_add: the sum is stored without the modulo
Hour_add_nowrap(a, b) == a + HourFromHour(b)

Hour_add(a, b) == HourFromTotal(a + HourFromHour(b))

Hour_sub(a, b) == HourFromTotal(a - HourFromHour(b))

Hour_mul(a, k) == HourFromTotal(a * k)

\* the mutant of Hour_floordiv: the quotient is rounded up
Hour_floordiv_up(a, b) == (a + HourFromHour(b) - 1) \div HourFromHour(b)

\* self // other: the integer quotient of the totals
Hour_floordiv(a, b) == a \div HourFromHour(b)

\* self % other: an Hour made of the remainder of the totals
Hour_mod(a, b) == HourFromTotal(a % HourFromHour(b))

\* k * self (__rmul__ is __mul__)
Hour_rmul(k, a) == Hour_mul(a, k)

\* self.floor(interval): self // interval * Hour(interval)
Hour_floor(h, interval) ==
    Hour_rmul(Hour_floordiv(h, interval), HourFromHour(interval))

\* the mutant of Hour_ceil: the interval is added to exact multiples too
Hour_ceil_always_steps(h, i) ==
    LET interval == HourFromHour(i)
    IN  Hour_add(Hour_floor(h, interval), interval)

\* self.ceil(interval): the floor, plus the interval unless the remainder is 0
Hour_ceil(h, i) ==
    LET interval == HourFromHour(i)
    IN  Hour_add(Hour_floor(h, interval),
                 IF Hour_mod(h, interval) = 0 THEN 0 ELSE interval)

(***************************************************************************)
(* Domain model (utils.py).                                                *)
(***************************************************************************)
Week_ALWAYS == 0
Week_LEFT == 1
Week_RIGHT == 2

HexDigit(c) ==
    CASE c = "a" -> 10 [] c = "b" -> 11 [] c = "c" -> 12 [] c = "d" -> 13
      [] c = "e" -> 14 [] c = "f" -> 15 [] OTHER -> Digit[c]

IsHex(c) == c \in DOMAIN Digit \cup {"a", "b", "c", "d", "e", "f"}

\* Lesson.__post_init__: a colour "#rrggbb" becomes the triple of its bytes
\* (DeviceRGB divides each by 255); any other colour is kept as written
Lesson_post_init(l) ==
    IF /\ l.color # None /\ Len(l.color) = 7 /\ l.color[1] = "#"
       /\ \A k \in 2..7 : IsHex(l.color[k])
    THEN [l EXCEPT !.color =
            <<"rgb", 16 * HexDigit(l.color[2]) + HexDigit(l.color[3]),
                     16 * HexDigit(l.color[4]) + HexDigit(l.color[5]),
                     16 * HexDigit(l.color[6]) + HexDigit(l.color[7])>>]
    ELSE l

\* Day(name): a day with no lessons
Day(name) == [name |-> name, lessons |-> <<>>]

\* bool(day) for a Day object: Day defines __iter__ but neither __bool__ nor
\* __len__, so every Day object is true
Day_bool(d) == TRUE

\* Timetable(): the defaults of its fields
Timetable ==
    [title |-> <<"T", "i", "m", "e", "t", "a", "b", "l", "e">>,
     left_week |-> <<>>, right_week |-> <<>>]

\* Settings(): the defaults of the two fields the parser assigns
Settings == [hours_width |-> None, title_shadow |-> FALSE]

(***************************************************************************)
(* The input alphabet: the lines a text is made of.                        *)
(***************************************************************************)
LineBlank == <<>>
LineComment == <<"#", "x">>
LineRule3 == <<"-", "-", "-">>
LineMon == <<"M", "o", "n">>
LineLeftA == <<"l", "e", "f", "t", "_", "w", "e", "e", "k", ":", " ", "A">>
LineRightB ==
    <<"r", "i", "g", "h", "t", "_", "w", "e", "e", "k", ":", " ", "B">>
LessonPlain == <<"8", ":", "0", "0", " ", "-", " ", "9", ":", "3", "0">>
LessonH == <<"8", "h", "0", "0", " ", "-", " ", "9", "h", "3", "0", " ", "M">>
LessonA ==
    <<"8", ":", "0", "0", " ", "-", " ", "9", ":", "0", "0", " ", "M", " ",
      "(", "r", ")", " ", "(", "A", ")">>
LessonB ==
    <<"8", ":", "0", "0", " ", "-", " ", "9", ":", "0", "0", " ", "M", " ",
      "(", "r", ")", " ", "(", "B", ")">>

Lines == {LineBlank, LineComment, LineRule3, LineMon, LineLeftA, LineRightB,
          LessonPlain, LessonH, LessonA, LessonB}

(***************************************************************************)
(* tt_parser.py: the two regular expressions.                              *)
(***************************************************************************)
\* is_hr: ^---+$
is_hr(line) == Len(line) >= 3 /\ \A k \in 1..Len(line) : line[k] = "-"

\* get_lesson on the lesson lines of the alphabet: the captured groups
\* (None for a group that did not take part in the match)
LessonTable ==
    {
      [line |-> LessonPlain, start |-> <<"8", ":", "0", "0">>,
       end |-> <<"9", ":", "3", "0">>, name |-> None,
       teacher |-> None, room |-> None, week |-> None,
       color |-> None, removed |-> None],
      [line |-> LessonH, start |-> <<"8", "h", "0", "0">>,
       end |-> <<"9", "h", "3", "0">>, name |-> <<"M">>,
       teacher |-> None, room |-> None, week |-> None,
       color |-> None, removed |-> None],
      [line |-> LessonA, start |-> <<"8", ":", "0", "0">>,
       end |-> <<"9", ":", "0", "0">>, name |-> <<"M">>,
       teacher |-> None, room |-> <<"r">>, week |-> <<"A">>,
       color |-> None, removed |-> None],
      [line |-> LessonB, start |-> <<"8", ":", "0", "0">>,
       end |-> <<"9", ":", "0", "0">>, name |-> <<"M">>,
       teacher |-> None, room |-> <<"r">>, week |-> <<"B">>,
       color |-> None, removed |-> None]
    }

\* whether get_lesson(line) is a match
get_lesson_matches(line) == \E e \in LessonTable : e.line = line

\* the match object of get_lesson(line)
get_lesson(line) == CHOOSE e \in LessonTable : e.line = line

\* Python's truth value of a string or None
Truthy(s) == s # None /\ Len(s) > 0

\* x or y
Or(x, y) == IF Truthy(x) THEN x ELSE y

\* dict.get(key, default)
dict_get(d, key, default) == IF key \in DOMAIN d THEN d[key] ELSE default

\* d[key] = value
dict_set(d, key, value) ==
    [k \in DOMAIN d \cup {key} |-> IF k = key THEN value ELSE d[k]]

KeyTitle == <<"t", "i", "t", "l", "e">>
KeyLeftWeek == <<"l", "e", "f", "t", "_", "w", "e", "e", "k">>
KeyRightWeek == <<"r", "i", "g", "h", "t", "_", "w", "e", "e", "k">>
KeyHoursWidth == <<"h", "o", "u", "r", "s", "_", "w", "i", "d", "t", "h">>
KeyTitleShadow == <<"t", "i", "t", "l", "e", "_", "s", "h", "a", "d", "o", "w">>
KeyColorPrefix == <<"c", "o", "l", "o", "r", ".">>
StrTrue == <<"t", "r", "u", "e">>

(***************************************************************************)
(* tt_parser.py: TimetableParser.                                          *)
(***************************************************************************)
\* ParseError(line, error) and ParseWarning(line, error)
ParseError(i, error) == [type |-> "ParseError", line |-> i, error |-> error]
ParseWarning(i, error) == [line |-> i, error |-> error]
\* ValueError(message): it has no attribute line
ValueError(error) == [type |-> "ValueError", error |-> error]
NoError == [type |-> "none"]

\* warnings.warn(w) for each w of ws, under "if self.lint and ..."
warn(ws) == warned' = IF lint THEN warned \o ws ELSE warned

\* the mutant of parsers: the lesson and rule parsers come before the
\* config parsers
parsers_config_last == <<"parse_empty_line_or_comment", "parse_lesson",
                         "parse_hr", "parse_config_begin", "parse_config_end",
                         "parse_config_option", "parse_day_name">>

\* the parse_ methods in the order self.__dir__() lists them: the order in
\* which the class body defines them
parsers == <<"parse_empty_line_or_comment", "parse_config_begin",
             "parse_config_end", "parse_config_option", "parse_lesson",
             "parse_hr", "parse_day_name">>

\* the mutant of Takes: parse_config_begin takes a rule on any line
Takes_begin_anywhere(p, i, line) ==
    CASE p = "parse_empty_line_or_comment" -> Len(line) = 0 \/ line[1] = "#"
      [] p = "parse_config_begin" -> is_hr(line)
      [] p = "parse_config_end" -> in_config /\ is_hr(line)
      [] p = "parse_config_option" -> in_config
      [] p = "parse_lesson" -> get_lesson_matches(line)
      [] p = "parse_hr" -> is_hr(line)
      [] p = "parse_day_name" -> TRUE

\* whether parser method p takes line i (returns True or raises) in the
\* current state, as opposed to returning False
Takes(p, i, line) ==
    CASE p = "parse_empty_line_or_comment" -> Len(line) = 0 \/ line[1] = "#"
      [] p = "parse_config_begin" -> i = 1 /\ is_hr(line)
      [] p = "parse_config_end" -> in_config /\ is_hr(line)
      [] p = "parse_config_option" -> in_config
      [] p = "parse_lesson" -> get_lesson_matches(line)
      [] p = "parse_hr" -> is_hr(line)
      [] p = "parse_day_name" -> TRUE

\* for parser in parsers: if parser(i, line): break
Dispatch(i, line) ==
    LET order == parsers IN
    order[Min({k \in 1..Len(order) : Takes(order[k], i, line)})]

\* the loop reads line i and hands it to parser method p
Read(p, i, line) ==
    /\ pc = "parsing"
    /\ Len(data) < MaxLines
    /\ i = Len(data) + 1
    /\ Dispatch(i, line) = p
    /\ data' = Append(data, line)
    /\ taken' = Append(taken, p)
    /\ UNCHANGED <<lint, tt, settings, hvars>>

\* the method returned True: the loop goes on
Continue == pc' = pc /\ err' = err

\* the method raised e: the constructor is left, no parser object exists
Raise(e) == pc' = "raised" /\ err' = e

parse_empty_line_or_comment(i, line) ==
    /\ Read("parse_empty_line_or_comment", i, line)
    /\ Cardinality({j \in 1..Len(taken) :
                       taken[j] = "parse_empty_line_or_comment"}) < MaxSkipped
    /\ Continue
    /\ UNCHANGED <<in_config, config, current_day_name, current_day, days,
                   warned>>

parse_config_begin(i, line) ==
    /\ Read("parse_config_begin", i, line)
    /\ in_config' = TRUE
    /\ warn(IF Len(line) > 3
            THEN <<ParseWarning(i, "config rule longer than 3 (before)")>>
            ELSE <<>>)
    /\ Continue
    /\ UNCHANGED <<config, current_day_name, current_day, days>>

\* the mutant of parse_config_end: under lint an empty config is rejected
parse_config_end_lint_raises(i, line) ==
    /\ Read("parse_config_end", i, line)
    /\ IF lint /\ DOMAIN config = {}
       THEN /\ Raise(ParseError(i, "Empty config"))
            /\ UNCHANGED <<in_config, warned>>
       ELSE /\ in_config' = FALSE
            /\ warn(IF Len(line) > 3
                    THEN <<ParseWarning(i, "config rule longer than 3 (after)")>>
                    ELSE <<>>)
            /\ Continue
    /\ UNCHANGED <<config, current_day_name, current_day, days>>
parse_config_end(i, line) ==
    /\ Read("parse_config_end", i, line)
    /\ in_config' = FALSE
    /\ warn((IF DOMAIN config = {}
             THEN <<ParseWarning(i, "Empty config")>> ELSE <<>>)
            \o (IF Len(line) > 3
                THEN <<ParseWarning(i, "config rule longer than 3 (after)")>>
                ELSE <<>>))
    /\ Continue
    /\ UNCHANGED <<config, current_day_name, current_day, days>>

parse_config_option(i, line) ==
    /\ Read("parse_config_option", i, line)
    /\ LET parts == partition(line, ":")
           name == parts[1]
           value == parts[3]
       IN  IF Len(value) = 0
           THEN /\ Raise(ParseError(i, "Invalid config option"))
                /\ config' = config
           ELSE /\ config' = dict_set(config, strip(name), strip(value))
                /\ Continue
    /\ UNCHANGED <<in_config, current_day_name, current_day, days, warned>>

\* the mutant of WeekOf: a token that is neither label means every week
WeekOf_lenient(token) ==
    IF Truthy(token)
    THEN IF token = dict_get(config, KeyLeftWeek, None) THEN Week_LEFT
         ELSE IF token = dict_get(config, KeyRightWeek, None) THEN Week_RIGHT
         ELSE Week_ALWAYS
    ELSE Week_ALWAYS

\* the week of a lesson whose week group is token: "invalid" when the token
\* is neither label
WeekOf(token) ==
    IF Truthy(token)
    THEN IF token = dict_get(config, KeyLeftWeek, None) THEN Week_LEFT
         ELSE IF token = dict_get(config, KeyRightWeek, None) THEN Week_RIGHT
         ELSE 0 - 1
    ELSE Week_ALWAYS

\* Lesson(start=Hour(match["start"]), ...)
LessonOf(match, week) ==
    Lesson_post_init(
        [start |-> HourFromString(match.start),
         end |-> HourFromString(match.end),
         name |-> Or(match.name, <<>>),
         teacher |-> Or(match.teacher, <<>>),
         room |-> Or(match.room, <<>>),
         color |-> Or(match.color,
                      dict_get(config, KeyColorPrefix \o Or(match.name, <<>>), None)),
         week |-> week,
         removed |-> match.removed # None])

\* the mutant of parse_lesson: a lesson line with no open day is dropped
parse_lesson_drops_without_day(i, line) ==
    /\ Read("parse_lesson", i, line)
    /\ LET match == get_lesson(line)
           week == WeekOf(match.week)
       IN  IF current_day = 0
           THEN /\ Continue
                /\ days' = days
           ELSE IF week \notin {Week_ALWAYS, Week_LEFT, Week_RIGHT}
           THEN /\ Raise(ParseError(i, "Invalid week"))
                /\ days' = days
           ELSE /\ days' = [days EXCEPT ![current_day].lessons =
                                Append(@, LessonOf(match, week))]
                /\ Continue
    /\ UNCHANGED <<in_config, config, current_day_name, current_day, warned>>

\* the mutant of parse_lesson: the lesson is put in front of the day's list
parse_lesson_prepends(i, line) ==
    /\ Read("parse_lesson", i, line)
    /\ LET match == get_lesson(line)
           week == WeekOf(match.week)
       IN  IF current_day = 0
           THEN /\ Raise(ParseError(i, "No current day"))
                /\ days' = days
           ELSE IF week \notin {Week_ALWAYS, Week_LEFT, Week_RIGHT}
           THEN /\ Raise(ParseError(i, "Invalid week"))
                /\ days' = days
           ELSE /\ days' = [days EXCEPT ![current_day].lessons =
                                <<LessonOf(match, week)>> \o @]
                /\ Continue
    /\ UNCHANGED <<in_config, config, current_day_name, current_day, warned>>

parse_lesson(i, line) ==
    /\ Read("parse_lesson", i, line)
    /\ LET match == get_lesson(line)
           week == WeekOf(match.week)
       IN  IF current_day = 0
           THEN /\ Raise(ParseError(i, "No current day"))
                /\ days' = days
           ELSE IF week \notin {Week_ALWAYS, Week_LEFT, Week_RIGHT}
           THEN /\ Raise(ParseError(i, "Invalid week"))
                /\ days' = days
           ELSE /\ days' = [days EXCEPT ![current_day].lessons =
                                Append(@, LessonOf(match, week))]
                /\ Continue
    /\ UNCHANGED <<in_config, config, current_day_name, current_day, warned>>

\* the mutant of parse_hr: a rule opens a day whenever a day name was read,
\* also when that day is already open
parse_hr_reopens(i, line) ==
    /\ Read("parse_hr", i, line)
    /\ IF current_day_name # None
       THEN /\ days' = Append(days, Day(current_day_name))
            /\ current_day' = Len(days) + 1
            /\ warn(IF Len(current_day_name) >= 3
                       /\ Len(line) # Len(current_day_name)
                    THEN <<ParseWarning(i, "rule length differs from day name")>>
                    ELSE <<>>)
            /\ Continue
       ELSE /\ Raise(ParseError(i, "Unexpected horizontal line"))
            /\ UNCHANGED <<days, current_day, warned>>
    /\ UNCHANGED <<in_config, config, current_day_name>>

parse_hr(i, line) ==
    /\ Read("parse_hr", i, line)
    /\ IF current_day_name # None /\ current_day = 0
       THEN /\ days' = Append(days, Day(current_day_name))
            /\ current_day' = Len(days) + 1
            /\ warn(IF Len(current_day_name) >= 3
                       /\ Len(line) # Len(current_day_name)
                    THEN <<ParseWarning(i, "rule length differs from day name")>>
                    ELSE <<>>)
            /\ Continue
       ELSE /\ Raise(ParseError(i, "Unexpected horizontal line"))
            /\ UNCHANGED <<days, current_day, warned>>
    /\ UNCHANGED <<in_config, config, current_day_name>>

\* not self.current_day: current_day is None, or a Day object that is false
not_current_day == current_day = 0 \/ ~Day_bool(days[current_day])

\* the mutant of parse_day_name: the open day stays the current day
parse_day_name_keeps_day(i, line) ==
    /\ Read("parse_day_name", i, line)
    /\ IF current_day_name # None /\ current_day = 0
       THEN /\ Raise(ParseError(i, "Unexpected day name"))
            /\ UNCHANGED <<current_day_name, current_day, warned>>
       ELSE /\ warn(IF /\ current_day_name # None
                       /\ not_current_day
                       /\ Contains(current_day_name, ":")
                    THEN <<ParseWarning(i, "Empty day")>> ELSE <<>>)
            /\ current_day_name' = line
            /\ current_day' = current_day
            /\ Continue
    /\ UNCHANGED <<in_config, config, days>>
parse_day_name(i, line) ==
    /\ Read("parse_day_name", i, line)
    /\ IF current_day_name # None /\ current_day = 0
       THEN /\ Raise(ParseError(i, "Unexpected day name"))
            /\ UNCHANGED <<current_day_name, current_day, warned>>
       ELSE /\ warn(IF /\ current_day_name # None
                       /\ not_current_day
                       /\ Contains(current_day_name, ":")
                    THEN <<ParseWarning(i, "Empty day")>> ELSE <<>>)
            /\ current_day_name' = line
            /\ current_day' = 0
            /\ Continue
    /\ UNCHANGED <<in_config, config, days>>

IsDigits(s) == Len(s) > 0 /\ \A k \in 1..Len(s) : s[k] \in DOMAIN Digit

\* the end of __init__, after the last line of data
EndOfData ==
    /\ pc = "parsing"
    /\ IF in_config
       THEN /\ Raise(ValueError("Unexpected end of config"))
            /\ UNCHANGED <<tt, settings>>
       ELSE IF /\ KeyHoursWidth \in DOMAIN config
               /\ ~IsDigits(config[KeyHoursWidth])
       THEN /\ Raise(ValueError("invalid literal for int()"))
            /\ tt' = [title |-> dict_get(config, KeyTitle, tt.title),
                      left_week |-> dict_get(config, KeyLeftWeek, <<>>),
                      right_week |-> dict_get(config, KeyRightWeek, <<>>)]
            /\ UNCHANGED settings
       ELSE /\ tt' = [title |-> dict_get(config, KeyTitle, tt.title),
                      left_week |-> dict_get(config, KeyLeftWeek, <<>>),
                      right_week |-> dict_get(config, KeyRightWeek, <<>>)]
            /\ settings' =
                 [hours_width |->
                    IF KeyHoursWidth \in DOMAIN config
                    THEN <<ParseNat(config[KeyHoursWidth])>> ELSE None,
                  title_shadow |->
                    lower(dict_get(config, KeyTitleShadow, <<>>)) = StrTrue]
            /\ pc' = "returned"
            /\ err' = err
    /\ UNCHANGED <<lint, data, taken, in_config, config, current_day_name,
                   current_day, days, warned, hvars>>

\* the state after the first statements of TimetableParser.__init__
ParserInit ==
    /\ lint \in BOOLEAN
    /\ data = <<>>
    /\ taken = <<>>
    /\ in_config = FALSE
    /\ config = <<>>
    /\ current_day_name = None
    /\ current_day = 0
    /\ days = <<>>
    /\ tt = Timetable
    /\ settings = Settings
    /\ warned = <<>>
    /\ pc = "parsing"
    /\ err = NoError

\* the Hour calculator at rest
HourIdle == hop = "none" /\ hin = <<>> /\ hout = 0

Init == ParserInit /\ HourIdle

Next ==
    \/ \E line \in Lines :
        LET i == Len(data) + 1 IN
        \/ parse_empty_line_or_comment(i, line)
        \/ parse_config_begin(i, line)
        \/ parse_config_end(i, line)
        \/ parse_config_option(i, line)
        \/ parse_lesson(i, line)
        \/ parse_hr(i, line)
        \/ parse_day_name(i, line)
    \/ EndOfData

Spec == Init /\ [][Next]_vars

(***************************************************************************)
(* The Hour calculator: each action builds an Hour or applies one operator *)
(* of Hour to operands drawn from bounded sets.                            *)
(***************************************************************************)
AllHours == 0..(24 * 60 - 1)
RawTotals == (0 - MaxRaw * 24 * 60)..(MaxRaw * 24 * 60)
\* right operands: the Hours within MaxOperand minutes of midnight and the
\* whole hours
Operands ==
    {HourFromTotal(r) : r \in (0 - MaxOperand)..MaxOperand}
        \cup {t \in AllHours : t % 60 = 0}

DigitChar == <<"0", "1", "2", "3", "4", "5", "6", "7", "8", "9">>

\* the decimal digits of n, as the input text writes a number
RECURSIVE Decimal(_)
Decimal(n) ==
    IF n < 10 THEN <<DigitChar[n + 1]>>
    ELSE Append(Decimal(n \div 10), DigitChar[(n % 10) + 1])

\* the string "H:MM" (sep ":") or "HhMM" (sep "h"), minutes written with
\* two digits
HourString(h, sep, m) ==
    Decimal(h) \o <<sep>> \o (IF m < 10 THEN <<"0">> ELSE <<>>) \o Decimal(m)

\* the operator was applied to the operands
HourOp(op, operands, result) ==
    /\ hop' = op
    /\ hin' = operands
    /\ hout' = result
    /\ UNCHANGED pvars

NewFromTotal ==
    /\ hop = "none"
    /\ \E raw \in RawTotals :
           HourOp("total", <<raw>>, HourFromTotal(raw))

NewFromPair ==
    /\ hop = "none"
    /\ \E h \in (0 - MaxHourArg)..MaxHourArg,
          m \in (0 - MaxMinuteArg)..MaxMinuteArg :
           HourOp("pair", <<h, m>>, HourFromPair(h, m))

NewFromString ==
    /\ hop = "none"
    /\ \E h \in 0..MaxHourArg, m \in 0..MaxMinuteArg, sep \in {":", "h"} :
           HourOp("string", <<HourString(h, sep, m), h, m>>,
                  HourFromString(HourString(h, sep, m)))

Add ==
    /\ hop = "none"
    /\ \E a \in AllHours, b \in Operands :
           HourOp("add", <<a, b>>, Hour_add(a, b))

Sub ==
    /\ hop = "none"
    /\ \E a \in AllHours, b \in Operands :
           HourOp("sub", <<a, b>>, Hour_sub(a, b))

Mul ==
    /\ hop = "none"
    /\ \E a \in AllHours, k \in (0 - MaxScalar)..MaxScalar :
           HourOp("mul", <<a, k>>, Hour_mul(a, k))

\* intervals of rounding: the short ones and the whole hours, 0 < i < 24h
Intervals ==
    {i \in 1..(24 * 60 - 1) : i <= MaxInterval \/ i % 60 = 0}

Floor ==
    /\ hop = "none"
    /\ \E h \in AllHours, i \in Intervals :
           HourOp("floor", <<h, i>>, Hour_floor(h, i))

Ceil ==
    /\ hop = "none"
    /\ \E h \in AllHours, i \in Intervals :
           HourOp("ceil", <<h, i>>, Hour_ceil(h, i))

\* no parser is running
ParserIdle ==
    /\ lint = FALSE
    /\ data = <<>>
    /\ taken = <<>>
    /\ in_config = FALSE
    /\ config = <<>>
    /\ current_day_name = None
    /\ current_day = 0
    /\ days = <<>>
    /\ tt = Timetable
    /\ settings = Settings
    /\ warned = <<>>
    /\ pc = "idle"
    /\ err = NoError

InitHour == ParserIdle /\ HourIdle

NextHour ==
    \/ NewFromTotal \/ NewFromPair \/ NewFromString
    \/ Add \/ Sub \/ Mul \/ Floor \/ Ceil

SpecHour == InitHour /\ [][NextHour]_vars

(***************************************************************************)
(* Pauses (utils.py): Pause, Pauses and PausesContainer, applied once to   *)
(* operands drawn from a small alphabet of hours.                           *)
(***************************************************************************)
\* Pause(start, end), a dataclass of two Hours
Pause(start, end) == [kind |-> "Pause", start |-> start, end |-> end]

\* an Hour given where an Hour or a Pause may be given
HourValue(total) == [kind |-> "Hour", total |-> total]

\* the value None returned where a Pause may be returned
NoPause == [kind |-> "None"]

\* TypeError("'Hour' object is not iterable"), raised by max() and min() of
\* one argument that is not an iterable
TypeError == [kind |-> "TypeError"]

Max(S) == CHOOSE x \in S : \A y \in S : y <= x

\* max(*args) and min(*args) of a sequence of Hours: with one argument the
\* builtin iterates over it, and an Hour is not iterable
builtin_max(args) ==
    IF Len(args) = 1 THEN TypeError
    ELSE HourValue(Max({args[k] : k \in 1..Len(args)}))

builtin_min(args) ==
    IF Len(args) = 1 THEN TypeError
    ELSE HourValue(Min({args[k] : k \in 1..Len(args)}))

\* Pause.intersection(*pauses)
Pause_intersection(pauses) ==
    IF Len(pauses) = 0 THEN NoPause
    ELSE LET start == builtin_max([k \in 1..Len(pauses) |-> pauses[k].start])
             end == builtin_min([k \in 1..Len(pauses) |-> pauses[k].end])
         IN  IF start.kind = "TypeError" THEN start
             ELSE IF end.kind = "TypeError" THEN end
             ELSE IF end.total < start.total THEN NoPause
             ELSE Pause(start.total, end.total)

\* bool(pause): the start and the end differ
Pause_bool(self) == self.start # self.end

\* other in self, for other an Hour or a Pause
Pause_contains(self, other) ==
    IF other.kind = "Hour"
    THEN self.start <= other.total /\ other.total <= self.end
    ELSE self.start <= other.start /\ other.end <= self.end

\* Pauses(start, end, pauses): the explicit pauses of a day
Pauses(start, end, pauses) == [start |-> start, end |-> end, pauses |-> pauses]

\* the mutant of Pauses_contains: the bounds of the day are outside the
\* shortcut
Pauses_contains_strict(self, other) ==
    IF self.pauses = <<>> THEN TRUE
    ELSE IF /\ other.kind = "Pause"
            /\ (other.end < self.start \/ self.end < other.start)
    THEN TRUE
    ELSE IF /\ other.kind = "Hour"
            /\ (other.total < self.start \/ self.end < other.total)
    THEN TRUE
    ELSE \E k \in 1..Len(self.pauses) : Pause_contains(self.pauses[k], other)

\* other in self, for self a Pauses object
Pauses_contains(self, other) ==
    IF self.pauses = <<>> THEN TRUE
    ELSE IF /\ other.kind = "Pause"
            /\ (other.end <= self.start \/ self.end <= other.start)
    THEN TRUE
    ELSE IF /\ other.kind = "Hour"
            /\ (other.total <= self.start \/ self.end <= other.total)
    THEN TRUE
    ELSE \E k \in 1..Len(self.pauses) : Pause_contains(self.pauses[k], other)

\* iter(self): the leading boundary pause, the explicit pauses, the trailing
\* boundary pause
Pauses_iter(self) ==
    <<Pause(HourFromPair(0, 0), self.start)>>
        \o self.pauses
        \o <<Pause(self.end, HourFromTotal(0 - 1))>>

\* itertools.product(*days): one pause of each day, the last day varying
\* fastest; one empty combination when there is no day
RECURSIVE itertools_product(_)
itertools_product(iterables) ==
    IF iterables = <<>> THEN << <<>> >>
    ELSE LET prev == itertools_product(
                         SubSeq(iterables, 1, Len(iterables) - 1))
             last == Pauses_iter(iterables[Len(iterables)])
             n == Len(last)
         IN  [k \in 1..(Len(prev) * n) |->
                 Append(prev[((k - 1) \div n) + 1], last[((k - 1) % n) + 1])]

PausesContainer(start_hour, end_hour, ds) ==
    [start_hour |-> start_hour, end_hour |-> end_hour, days |-> ds]

\* self.intersection(), for self a PausesContainer
PausesContainer_intersection(self) ==
    LET combos == itertools_product(self.days)
        RECURSIVE Loop(_)
        Loop(k) ==
            IF k > Len(combos) THEN NoPause
            ELSE IF Len(combos[k]) = 0 THEN NoPause
            ELSE LET intersection == Pause_intersection(combos[k])
                 IN  IF intersection.kind = "TypeError" THEN intersection
                     ELSE IF /\ intersection.kind = "Pause"
                             /\ Pause_bool(intersection)
                             /\ Pause_contains(
                                    Pause(self.start_hour, self.end_hour),
                                    intersection)
                     THEN intersection
                     ELSE Loop(k + 1)
    IN  Loop(1)

\* the hours of the pauses: midnight, 8:00, 12:00, 17:00 and 23:59
PauseHours ==
    {HourFromPair(h, 0) : h \in {0, 8, 12, 17}} \cup {HourFromTotal(0 - 1)}

\* every Pause between two of these hours: proper, empty and inverted ones
AllPauses == {Pause(s, e) : s \in PauseHours, e \in PauseHours}

\* the sequences over S of at most n elements
SeqUpTo(S, n) == UNION {[1..k -> S] : k \in 0..n}

\* the days of the containers: days of 8:00 to 17:00 and one shorter day,
\* with no explicit pause, a lunch pause or two pauses
DayAlphabet ==
    {Pauses(HourFromPair(8, 0), HourFromPair(17, 0), ps) :
        ps \in {<<>>,
                <<Pause(HourFromPair(11, 0), HourFromPair(13, 0))>>,
                <<Pause(HourFromPair(12, 0), HourFromPair(14, 0))>>,
                <<Pause(HourFromPair(8, 0), HourFromPair(9, 0)),
                  Pause(HourFromPair(13, 0), HourFromPair(14, 0))>>}}
        \cup {Pauses(HourFromPair(9, 0), HourFromPair(12, 0),
                     <<Pause(HourFromPair(10, 0), HourFromPair(10, 0))>>)}

Intersect ==
    /\ hop = "none"
    /\ \E pauses \in SeqUpTo(AllPauses, MaxOperands) :
           HourOp("intersection", <<pauses>>, Pause_intersection(pauses))

ContainsHourOrPause ==
    /\ hop = "none"
    /\ \E s \in PauseHours, e \in PauseHours,
          ps \in SeqUpTo(AllPauses, MaxExplicit),
          x \in AllPauses \cup {HourValue(t) : t \in PauseHours} :
           HourOp("contains", <<Pauses(s, e, ps), x>>,
                  Pauses_contains(Pauses(s, e, ps), x))

ContainerIntersect ==
    /\ hop = "none"
    /\ \E s \in PauseHours, e \in PauseHours,
          ds \in SeqUpTo(DayAlphabet, MaxDays) :
           HourOp("container", <<PausesContainer(s, e, ds)>>,
                  PausesContainer_intersection(PausesContainer(s, e, ds)))

NextPause == Intersect \/ ContainsHourOrPause \/ ContainerIntersect

SpecPause == InitHour /\ [][NextPause]_vars

(***************************************************************************)
(* Settings (utils.py): _SettingsBase.merge, and the page-local settings    *)
(* of real_main (__init__.py).  A field holds None or a value.              *)
(***************************************************************************)
\* the field is None
IsNone == [set |-> FALSE]

\* the field holds the value v
Val(v) == [set |-> TRUE, val |-> v]

\* the fields of the dataclass, in the order of their definition
SettingsFields ==
    <<"title_height", "title_shadow", "hours_width", "wrap_hour",
      "day_height", "show_weeks", "show_teacher", "show_room",
      "show_first_last", "show_pause", "black_white">>

\* the defaults of the dataclass: cls() with no argument
SettingsBase ==
    [title_height |-> Val(15), title_shadow |-> Val(FALSE),
     hours_width |-> IsNone, wrap_hour |-> IsNone, day_height |-> Val(10),
     show_weeks |-> Val(TRUE), show_teacher |-> Val(TRUE),
     show_room |-> Val(TRUE), show_first_last |-> Val(TRUE),
     show_pause |-> Val(TRUE), black_white |-> Val(FALSE)]

\* cls(**kwargs): the fields missing from kwargs take the class defaults
SettingsNew(kwargs) ==
    [name \in DOMAIN SettingsBase |->
        IF name \in DOMAIN kwargs THEN kwargs[name] ELSE SettingsBase[name]]

\* the mutant of merge_value: the objects are searched first to last
merge_value_first_wins(objs, name) ==
    LET RECURSIVE Search(_)
        Search(k) ==
            IF k > Len(objs) THEN IsNone
            ELSE IF objs[k][name].set THEN objs[k][name]
            ELSE Search(k + 1)
    IN  Search(1)

\* the inner loop of merge: the value of the first object of objs[::-1]
\* whose field is not None; IsNone stands for NOTHING
merge_value(objs, name) ==
    LET RECURSIVE Search(_)
        Search(k) ==
            IF k < 1 THEN IsNone
            ELSE IF objs[k][name].set THEN objs[k][name]
            ELSE Search(k - 1)
    IN  Search(Len(objs))

\* Settings.merge(*objs)
merge(objs) ==
    LET names == {SettingsFields[n] : n \in 1..Len(SettingsFields)}
        kwargs == [name \in {f \in names : merge_value(objs, f).set} |->
                      merge_value(objs, name)]
    IN  SettingsNew(kwargs)

\* the settings objects that are merged: three fields vary, over None, the
\* class default and another value; the other fields hold the class defaults
SettingsObjects ==
    {[SettingsBase EXCEPT !.title_height = th, !.title_shadow = ts,
                          !.hours_width = hw] :
        th \in {IsNone, Val(15), Val(20)},
        ts \in {IsNone, Val(FALSE), Val(TRUE)},
        hw \in {IsNone, Val(10), Val(12)}}

Merge ==
    /\ hop = "none"
    /\ \E objs \in SeqUpTo(SettingsObjects, MaxObjs) :
           HourOp("merge", <<objs>>, merge(objs))

\* result.settings of TimetableParser: Settings() with the two fields that
\* the end of __init__ assigns from the config block
TimetableParser_settings(cfg) ==
    [SettingsBase EXCEPT
        !.hours_width =
            IF KeyHoursWidth \in DOMAIN cfg
            THEN Val(ParseNat(cfg[KeyHoursWidth])) ELSE IsNone,
        !.title_shadow =
            Val(lower(dict_get(cfg, KeyTitleShadow, <<>>)) = StrTrue)]

\* CLI(**options): the options not given on the command line take the
\* class defaults
CLI(options) == SettingsNew(options)

\* the settings handed to TimetableRenderer by real_main
real_main_settings(cfg, options) ==
    merge(<<TimetableParser_settings(cfg), CLI(options)>>)

\* the config blocks of the documents
ConfigAlphabet ==
    {<<>>,
     dict_set(<<>>, KeyTitleShadow, StrTrue),
     dict_set(<<>>, KeyTitleShadow, <<"T", "r", "u", "e">>),
     dict_set(<<>>, KeyTitleShadow, <<"n", "o">>),
     dict_set(<<>>, KeyHoursWidth, <<"1", "2">>),
     dict_set(dict_set(<<>>, KeyTitleShadow, StrTrue),
              KeyHoursWidth, <<"1", "2">>)}

\* the options given on the command line
OptionAlphabet ==
    {[name \in names |-> vals[name]] :
        names \in SUBSET {"title_height", "title_shadow", "hours_width"},
        vals \in {[title_height |-> Val(20), title_shadow |-> Val(ts),
                   hours_width |-> Val(10)] : ts \in BOOLEAN}}

RealMain ==
    /\ hop = "none"
    /\ \E cfg \in ConfigAlphabet, options \in OptionAlphabet :
           HourOp("real_main", <<cfg, options>>,
                  real_main_settings(cfg, options))

NextSettings == Merge \/ RealMain

SpecSettings == InitHour /\ [][NextSettings]_vars

(***************************************************************************)
(* The hour axis (__init__.py): HoursManager and the calls that            *)
(* TimetableRenderer.render makes to it.  A timetable is a sequence of      *)
(* days, a day a sequence of lessons, a lesson a start and an end.  A       *)
(* position y is t_margin + title_height + day_height + eff_day_height *    *)
(* num / den, kept as the fraction num / den.                               *)
(***************************************************************************)
LessonHours(start, end) == [start |-> start, end |-> end]

\* the lessons of all days, in the order of the days
RECURSIVE AllLessons(_)
AllLessons(timetable) ==
    IF timetable = <<>> THEN <<>>
    ELSE timetable[1] \o AllLessons(Tail(timetable))

\* HoursManager.__post_init__: the earliest start and the latest end, or None
HoursManager(timetable) ==
    LET lessons == AllLessons(timetable)
        starts == {lessons[k].start : k \in 1..Len(lessons)}
        ends == {lessons[k].end : k \in 1..Len(lessons)}
    IN  [start_hour |-> IF starts # {} THEN Val(Min(starts)) ELSE IsNone,
         end_hour |-> IF ends # {} THEN Val(Max(ends)) ELSE IsNone]

\* range_any(start, end, interval, include_end=True) on Hours: the loop
\* yields current and adds the interval while current is before end (after
\* end when end < start), then current is yielded once more
range_any(start, end, interval) ==
    LET reverse == end < start
        RECURSIVE Loop(_)
        Loop(current) ==
            IF (IF reverse THEN current > end ELSE current < end)
            THEN <<current>> \o Loop(Hour_add(current, interval))
            ELSE <<current>>
    IN  Loop(start)

\* a call that returned: the cells drawn and the calls made so far
Drawn(ticks, calls) == [raised |-> "none", ticks |-> ticks, calls |-> calls]

\* a call that raised
Raised(exception, ticks, calls) ==
    [raised |-> exception, ticks |-> ticks, calls |-> calls]

\* HoursManager.y_for_hour(hour): the asserts, the wrap_hour shifts, then
\* (hour - start_hour) / int(day_length); day_length is end_hour - start_hour
\* and int() of an Hour is its number of whole hours
y_for_hour(self, sett, hour) ==
    IF ~self.start_hour.set \/ ~self.end_hour.set
    THEN [raised |-> "AssertionError", calls |-> <<"y_for_hour">>]
    ELSE LET wrap == sett.wrap_hour
             h1 == IF wrap.set /\ hour = wrap.val
                   THEN Hour_sub(hour, 30) ELSE hour
             h2 == IF wrap.set /\ h1 > wrap.val
                   THEN Hour_sub(h1, HourFromPair(1, 0)) ELSE h1
             day_length == Hour_sub(self.end_hour.val, self.start_hour.val)
             divisor == HourFromPair(day_length \div 60, 0)
         IN  IF divisor = 0
             THEN [raised |-> "ZeroDivisionError",
                   calls |-> <<"y_for_hour", "day_length">>]
             ELSE [raised |-> "none",
                   calls |-> <<"y_for_hour", "day_length">>,
                   num |-> Hour_sub(h2, self.start_hour.val),
                   den |-> divisor]

\* the loop of HoursManager.render over the hours, render_one_hour included
render_hours(self, sett, hours) ==
    LET first_hour == hours[1]
        last_hour == hours[Len(hours)]
        RECURSIVE Loop(_, _, _)
        Loop(k, ticks, calls) ==
            IF k > Len(hours) THEN Drawn(ticks, calls)
            ELSE IF /\ hours[k] \in {first_hour, last_hour}
                    /\ sett.show_first_last = FALSE
            THEN Loop(k + 1, ticks, calls)
            ELSE LET y == y_for_hour(self, sett, hours[k])
                 IN  IF y.raised # "none"
                     THEN Raised(y.raised, ticks, calls \o y.calls)
                     ELSE Loop(k + 1,
                               Append(ticks, [hour |-> hours[k],
                                              num |-> y.num, den |-> y.den]),
                               calls \o y.calls)
    IN  Loop(1, <<>>, <<>>)

\* the mutant of HoursManager_render: no return when the hours are None
HoursManager_render_unguarded(self, sett, interval) ==
    IF ~self.start_hour.set \/ ~self.end_hour.set
    THEN Raised("AttributeError", <<>>, <<>>)
    ELSE render_hours(self, sett,
                      range_any(Hour_ceil(self.start_hour.val, interval),
                                Hour_floor(self.end_hour.val, interval),
                                interval))

\* HoursManager.render(interval)
HoursManager_render(self, sett, interval) ==
    IF ~self.start_hour.set \/ ~self.end_hour.set
    THEN Drawn(<<>>, <<>>)
    ELSE LET hours == range_any(Hour_ceil(self.start_hour.val, interval),
                                Hour_floor(self.end_hour.val, interval),
                                interval)
         IN  IF hours = <<>> THEN Drawn(<<>>, <<>>)
             ELSE render_hours(self, sett, hours)

\* DaysManager.render_lesson as far as the axis is concerned: the two calls
\* of y_for_hour, for the start and the end of the lesson
render_lesson(self, sett, lesson, ticks, calls) ==
    LET y1 == y_for_hour(self, sett, lesson.start)
        y2 == y_for_hour(self, sett, lesson.end)
    IN  IF y1.raised # "none" THEN Raised(y1.raised, ticks, calls \o y1.calls)
        ELSE IF y2.raised # "none"
        THEN Raised(y2.raised, ticks, calls \o y1.calls \o y2.calls)
        ELSE Drawn(ticks, calls \o y1.calls \o y2.calls)

\* TimetableRenderer.render(pdf): the hours, l_margin += hours_width, then
\* every lesson of every day
TimetableRenderer_render(timetable, sett) ==
    LET self == HoursManager(timetable)
        axis == HoursManager_render(self, sett, HourFromPair(1, 0))
        lessons == AllLessons(timetable)
        RECURSIVE Loop(_, _)
        Loop(k, sofar) ==
            IF k > Len(lessons) \/ sofar.raised # "none" THEN sofar
            ELSE Loop(k + 1, render_lesson(self, sett, lessons[k],
                                           sofar.ticks, sofar.calls))
    IN  IF axis.raised # "none" THEN axis
        ELSE IF ~sett.hours_width.set
        THEN Raised("TypeError", axis.ticks, axis.calls)
        ELSE Loop(1, axis)

\* the lessons of the timetables: a whole hour, an hour and a half, two
\* lessons inside one hour, one with no even hour inside, a late one, an
\* afternoon
LessonAlphabet ==
    {LessonHours(HourFromPair(8, 0), HourFromPair(9, 0)),
     LessonHours(HourFromPair(8, 0), HourFromPair(9, 30)),
     LessonHours(HourFromPair(8, 10), HourFromPair(8, 50)),
     LessonHours(HourFromPair(8, 0), HourFromPair(8, 30)),
     LessonHours(HourFromPair(8, 10), HourFromPair(9, 50)),
     LessonHours(HourFromPair(22, 30), HourFromPair(23, 45)),
     LessonHours(HourFromPair(14, 0), HourFromPair(17, 0))}

\* the days: without lessons, with one lesson, with a morning and an
\* afternoon
AxisDays ==
    {<<>>} \cup {<<l>> : l \in LessonAlphabet}
        \cup {<<LessonHours(HourFromPair(8, 0), HourFromPair(9, 0)),
                LessonHours(HourFromPair(14, 0), HourFromPair(17, 0))>>}

Timetables == SeqUpTo(AxisDays, MaxAxisDays)

\* the settings the axis reads
AxisSettings ==
    [show_first_last : BOOLEAN,
     hours_width : {IsNone, Val(10)},
     wrap_hour : {IsNone, Val(HourFromPair(12, 0))}]

\* the intervals of the ticks: half an hour, an hour, two hours
AxisIntervals == {30, HourFromPair(1, 0), HourFromPair(2, 0)}

\* the hours asked of y_for_hour: the starts and the ends of the lessons
AxisHours ==
    {l.start : l \in LessonAlphabet} \cup {l.end : l \in LessonAlphabet}

RenderHours ==
    /\ hop = "none"
    /\ \E timetable \in Timetables, sett \in AxisSettings,
          interval \in AxisIntervals :
           HourOp("render", <<timetable, sett, interval>>,
                  HoursManager_render(HoursManager(timetable), sett,
                                      interval))

YForHour ==
    /\ hop = "none"
    /\ \E timetable \in Timetables, sett \in AxisSettings,
          hour \in AxisHours :
           HourOp("y_for_hour", <<timetable, sett, hour>>,
                  y_for_hour(HoursManager(timetable), sett, hour))

RenderDocument ==
    /\ hop = "none"
    /\ \E timetable \in Timetables, sett \in AxisSettings :
           HourOp("document", <<timetable, sett>>,
                  TimetableRenderer_render(timetable, sett))

\* DaysManager.render_lesson, the vertical band of a lesson:
\* metrics.start_y = y_for_hour(lesson.start) and
\* metrics.end_y = y_for_hour(lesson.end), each position kept as the exact
\* fraction num / den of the day's height
lesson_band(self, sett, lesson) ==
    LET y1 == y_for_hour(self, sett, lesson.start)
        y2 == y_for_hour(self, sett, lesson.end)
    IN  IF y1.raised # "none" THEN [raised |-> y1.raised]
        ELSE IF y2.raised # "none" THEN [raised |-> y2.raised]
        ELSE [raised |-> "none", start_y |-> [num |-> y1.num, den |-> y1.den],
              end_y |-> [num |-> y2.num, den |-> y2.den]]

\* the lessons whose band is asked for: those of the alphabet and four
\* around noon
BandLessons ==
    LessonAlphabet
        \cup {LessonHours(HourFromPair(11, 0), HourFromPair(12, 0)),
              LessonHours(HourFromPair(11, 30), HourFromPair(12, 15)),
              LessonHours(HourFromPair(12, 0), HourFromPair(12, 20)),
              LessonHours(HourFromPair(12, 30), HourFromPair(13, 30))}

\* a timetable whose last day holds the lesson, and the band of that lesson
LessonBand ==
    /\ hop = "none"
    /\ \E timetable \in Timetables, sett \in AxisSettings,
          lesson \in BandLessons :
           LET whole == Append(timetable, <<lesson>>)
           IN  HourOp("band", <<whole, sett, lesson>>,
                      lesson_band(HoursManager(whole), sett, lesson))

NextAxis == RenderHours \/ YForHour \/ RenderDocument \/ LessonBand

SpecAxis == InitHour /\ [][NextAxis]_vars

(***************************************************************************)
(* The same text parsed twice: TimetableParser(text, lint) runs to its end, *)
(* its outcome is kept, and TimetableParser(text, not lint) then reads the  *)
(* same lines.                                                             *)
(***************************************************************************)
MaxLintLines == 4

\* what a finished constructor call leaves to its caller
Outcome ==
    [data |-> data, pc |-> pc, err |-> err, tt |-> tt, settings |-> settings,
     config |-> config, days |-> days, warned |-> warned]

\* the second call: a new parser object on the text of the first call, with
\* the other value of lint
Rerun ==
    /\ hop = "none"
    /\ pc # "parsing"
    /\ hop' = "rerun"
    /\ hin' = Outcome
    /\ hout' = hout
    /\ lint' = ~lint
    /\ data' = <<>>
    /\ taken' = <<>>
    /\ in_config' = FALSE
    /\ config' = <<>>
    /\ current_day_name' = None
    /\ current_day' = 0
    /\ days' = <<>>
    /\ tt' = Timetable
    /\ settings' = Settings
    /\ warned' = <<>>
    /\ pc' = "parsing"
    /\ err' = NoError

\* the first call reads any text of up to MaxLintLines lines; the second
\* call reads the lines of the first, and reaches the end of the data only
\* after the last of them
SameText ==
    IF hop = "rerun"
    THEN /\ Len(data') <= Len(hin.data)
         /\ data' = SubSeq(hin.data, 1, Len(data'))
         /\ data' = data => data = hin.data
    ELSE Len(data') <= MaxLintLines

NextLint == (Next /\ SameText) \/ Rerun

SpecLint == Init /\ [][NextLint]_vars

(***************************************************************************)
(* The layout of a lesson (LessonMetrics, DaysManager.render_lesson).       *)
(* Lengths are whole numbers of tenths of a millimetre; the heights of the  *)
(* lessons are multiples of 6 tenths, so that every division the code makes *)
(* before the last one is exact.                                           *)
(***************************************************************************)
MaxBandSteps == 24

MaxSide == 12
MaxSegments == 6

\* step = 5  # mm
StrikeStep == 5
\* the 7 mm limit of a text line, in tenths
SevenMm == 70

\* LessonMetrics.week_height: week_font_size / pdf.k + 2 * week_margin, that
\* is 10 pt (3.53 mm) plus c_margin (1 mm), to the nearest half millimetre
week_height == 45

\* LessonMetrics(pdf, left_week, right_week, start_y=.., end_y=..): the other
\* fields hold their default 0
LessonMetrics(start_y, end_y) ==
    [start_y |-> start_y, end_y |-> end_y, week_y_pos |-> 0,
     cell_height |-> 0, top_padding |-> 0, bottom_padding |-> 0,
     top_bottom_padding |-> 0]

\* LessonMetrics.height
LessonMetrics_height(self) == self.end_y - self.start_y

\* LessonMetrics.calculate(week_shown, items_n): the metrics afterwards, or
\* the exception of the division self.height / items_n
LessonMetrics_calculate(self, week_shown, items_n) ==
    IF items_n = 0 THEN [raised |-> "ZeroDivisionError", metrics |-> self]
    ELSE
    LET height == LessonMetrics_height(self)
        \* min(7, self.height / items_n)
        cell_height == IF SevenMm * items_n <= height THEN SevenMm
                       ELSE height \div items_n
        top_bottom_padding == Max({(height - items_n * cell_height) \div 2, 0})
        m1 == [self EXCEPT !.cell_height = cell_height,
                           !.top_bottom_padding = top_bottom_padding]
        \* if self.top_bottom_padding + self.bottom_padding
        \*        >= self.week_height * 0
        m2 == IF ~week_shown THEN m1
              ELSE IF m1.top_bottom_padding + m1.bottom_padding
                          >= week_height * 0
              THEN [m1 EXCEPT !.week_y_pos = m1.end_y - week_height,
                              !.bottom_padding = @ + (week_height * 2) \div 5]
              ELSE [m1 EXCEPT !.week_y_pos = m1.start_y,
                              !.top_padding = @ + (week_height * 2) \div 5]
        \* if self.top_bottom_padding < 0
        m3 == IF ~week_shown \/ m2.top_bottom_padding >= 0 THEN m2
              ELSE IF m2.week_y_pos = m2.start_y
              THEN [m2 EXCEPT !.top_padding = @ - m2.top_bottom_padding,
                              !.top_bottom_padding = 0]
              ELSE [m2 EXCEPT !.bottom_padding = @ - m2.top_bottom_padding,
                              !.top_bottom_padding = 0]
    IN  [raised |-> "none", metrics |-> m3]

\* the three text lines of a lesson: the name, the teacher and the room, the
\* last two only when the settings show them
lesson_items(lesson, sett) ==
    <<strip(lesson.name),
      IF sett.show_teacher THEN strip(lesson.teacher) ELSE <<>>,
      IF sett.show_room THEN strip(lesson.room) ELSE <<>>>>

\* DaysManager.render_lesson between the two calls of y_for_hour and the
\* drawing: items_n, week_shown, metrics.calculate and the height of a text
\* line, (height - paddings) / items_n, kept as a fraction
DaysManager_render_lesson(lesson, sett, start_y, end_y) ==
    LET items == lesson_items(lesson, sett)
        items_n == Cardinality({k \in 1..3 : Len(items[k]) > 0})
        week_shown == lesson.week # Week_ALWAYS /\ sett.show_weeks
        done == LessonMetrics_calculate(LessonMetrics(start_y, end_y),
                                        week_shown, items_n)
        metrics == done.metrics
    IN  IF done.raised # "none"
        THEN [raised |-> done.raised, items_n |-> items_n]
        ELSE IF items_n = 0
        THEN [raised |-> "ZeroDivisionError", items_n |-> items_n]
        ELSE [raised |-> "none", items_n |-> items_n, metrics |-> metrics,
              cell_height |->
                  [num |-> LessonMetrics_height(metrics) - metrics.top_padding
                               - 2 * metrics.top_bottom_padding
                               - metrics.bottom_padding,
                   den |-> items_n]]

\* the tops of the lessons and their heights
StartYs == {0, 300}
BandHeights == {6 * k : k \in 0..MaxBandSteps}

\* the lessons the parser makes of the lesson lines of the alphabet, in a
\* document whose left week is A and whose right week is B
LayoutLessons ==
    {LessonOf(m, IF m.week = None THEN Week_ALWAYS
                 ELSE IF m.week = <<"A">> THEN Week_LEFT ELSE Week_RIGHT) :
        m \in LessonTable}

\* the settings render_lesson reads
LayoutSettings ==
    [show_teacher : BOOLEAN, show_room : BOOLEAN, show_weeks : BOOLEAN]

Calculate ==
    /\ hop = "none"
    /\ \E start_y \in StartYs, height \in BandHeights,
          week_shown \in BOOLEAN, items_n \in 0..3 :
           LET self == LessonMetrics(start_y, start_y + height)
           IN  HourOp("calculate", <<self, week_shown, items_n>>,
                      LessonMetrics_calculate(self, week_shown, items_n))

RenderLesson ==
    /\ hop = "none"
    /\ \E lesson \in LayoutLessons, sett \in LayoutSettings,
          start_y \in StartYs, height \in BandHeights :
           HourOp("lesson", <<lesson, sett, start_y, start_y + height>>,
                  DaysManager_render_lesson(lesson, sett, start_y,
                                            start_y + height))

\* range_any(start, end, interval) on whole numbers: the loop yields current
\* and adds the interval while current is before end (after end when
\* end < start).  With end < start and a positive interval the loop never
\* ends: values holds what it yields first, up to MaxSegments values, and
\* more says that it goes on yielding.
range_any_numbers(start, end, interval) ==
    LET reverse == end < start
        RECURSIVE Loop(_, _)
        Loop(current, k) ==
            IF (IF reverse THEN current > end ELSE current < end)
            THEN IF k > MaxSegments
                 THEN [values |-> <<>>, more |-> TRUE]
                 ELSE LET rest == Loop(current + interval, k + 1)
                      IN  [values |-> <<current>> \o rest.values,
                           more |-> rest.more]
            ELSE [values |-> <<>>, more |-> FALSE]
    IN  Loop(start, 1)

\* DaysManager.striketrough(x, y, width, height): the segments given to
\* pdf.line, one for each position of range_any(step, height + width, step)
striketrough(x, y, width, height) ==
    LET step == StrikeStep
        maximum == height + width
        positions == range_any_numbers(step, maximum, step)
        line(position) ==
            LET x1 == IF position >= height THEN x + position - height ELSE x
                y1 == IF position <= height THEN y + height - position ELSE y
                x2 == x1 + height
                y2 == y1 + height
                \* limit the line to the bottom of the cell
                diff1 == IF y2 > y + height THEN y2 - (y + height) ELSE 0
                x3 == x2 - diff1
                y3 == y2 - diff1
                \* limit the line to the right of the cell
                diff2 == IF x3 > x + width THEN x3 - (x + width) ELSE 0
            IN  [x1 |-> x1, y1 |-> y1, x2 |-> x3 - diff2, y2 |-> y3 - diff2]
    IN  [lines |-> [k \in 1..Len(positions.values) |->
                       line(positions.values[k])],
         more |-> positions.more]

\* the corners and the sides of the rectangles, in millimetres
StrikeCorners == {0, 3}
StrikeSides == 1..MaxSide

Striketrough ==
    /\ hop = "none"
    /\ \E x \in StrikeCorners, y \in StrikeCorners,
          width \in StrikeSides, height \in StrikeSides :
           HourOp("striketrough", <<x, y, width, height>>,
                  striketrough(x, y, width, height))

NextLayout == Calculate \/ RenderLesson \/ Striketrough

SpecLayout == InitHour /\ [][NextLayout]_vars

(***************************************************************************)
(* The pdf object shared by the documents (PatchedFPDF.cell, render_week,   *)
(* TimetableRenderer.render).  Lengths are whole numbers of sixtieths of a  *)
(* millimetre, so that the width of a day, epw / len(timetable), is exact   *)
(* for one, two and three days; font sizes are exact fractions of a point.  *)
(***************************************************************************)
MaxPdfOps == 3
MaxPdfDays == 2

\* an A4 page in landscape, the default margins of FPDF and the x that
\* render_title sets
PageWidth == 17820
r_margin == 600
l_margin_default == 600
c_margin == 60
TitleX == 1200
DefaultFontSize == 12
week_font_size == 10

RECURSIVE GCD(_, _)
GCD(a, b) == IF b = 0 THEN a ELSE GCD(b, a % b)

\* the fraction num / den in lowest terms (num >= 0, den > 0)
Frac(num, den) ==
    LET g == GCD(num, den) IN [num |-> num \div g, den |-> den \div g]

\* the fraction f * a / b in lowest terms
Scaled(f, a, b) ==
    LET g1 == GCD(f.num, b)
        g2 == GCD(a, f.den)
    IN  Frac((f.num \div g1) * (a \div g2), (f.den \div g2) * (b \div g1))

\* PatchedFPDF("L") after __init__: set_font("Montserrat") at the default
\* size, the default left margin
NewPdf == [font_size_pt |-> Frac(DefaultFontSize, 1),
           l_margin |-> l_margin_default]

\* the context variables left_week and right_week: their default is ""
NoWeeks == [left_week |-> <<>>, right_week |-> <<>>]

\* the mutant of third_from_end: the last character
last_char(txt) == IF Len(txt) >= 1 THEN <<txt[Len(txt)]>> ELSE <<>>

\* txt[-3:-2]
third_from_end(txt) == IF Len(txt) >= 3 THEN <<txt[Len(txt) - 2]>> ELSE <<>>

\* if w == 0: w = self.w - self.r_margin - self.x
cell_width(w, x) ==
    IF w.set /\ w.val = 0 THEN Val(PageWidth - r_margin - x) ELSE w

\* the condition of the auto-fit, for the width w after the line above
cell_shrinks(weeks, txt, w, str_width) ==
    /\ Len(txt) > 0
    /\ txt \notin {weeks.left_week, weeks.right_week}
    /\ third_from_end(txt) # <<":">>
    /\ w.set
    /\ w.val # 0
    /\ str_width > w.val - c_margin * 2

\* the mutant of PatchedFPDF_cell: the font size of the auto-fit is kept
\* after the drawing
PatchedFPDF_cell_keeps_size(pdf, weeks, c) ==
    LET w == cell_width(c.w, c.x)
        shrinks == cell_shrinks(weeks, c.txt, w, c.str_width)
        size == IF shrinks
                THEN Scaled(pdf.font_size_pt, w.val - c_margin * 2,
                            c.str_width)
                ELSE pdf.font_size_pt
        call == [txt |-> c.txt, w |-> w, str_width |-> c.str_width,
                 weeks |-> weeks, font_size_pt |-> pdf.font_size_pt]
        sized == [pdf EXCEPT !.font_size_pt = size]
    IN  IF c.raises
        THEN [raised |-> "Exception", pdf |-> sized, call |-> call,
              drawn |-> <<>>]
        ELSE [raised |-> "none", pdf |-> sized, call |-> call,
              drawn |-> <<[txt |-> c.txt, size |-> size]>>]

\* PatchedFPDF.cell(w, h, txt) for the call c = [w, x, txt, str_width,
\* raises]: str_width is what get_string_width(txt) returns and raises says
\* whether FPDF.cell raises.  The result holds the pdf afterwards and the
\* text drawn with the font size it was drawn at.
PatchedFPDF_cell(pdf, weeks, c) ==
    LET w == cell_width(c.w, c.x)
        shrinks == cell_shrinks(weeks, c.txt, w, c.str_width)
        \* self.set_font_size(font_size * target_width / str_width)
        size == IF shrinks
                THEN Scaled(pdf.font_size_pt, w.val - c_margin * 2,
                            c.str_width)
                ELSE pdf.font_size_pt
        call == [txt |-> c.txt, w |-> w, str_width |-> c.str_width,
                 weeks |-> weeks, font_size_pt |-> pdf.font_size_pt]
    IN  IF c.raises
        \* super().cell raised: the last two lines are not reached
        THEN [raised |-> "Exception",
              pdf |-> [pdf EXCEPT !.font_size_pt = size],
              call |-> call, drawn |-> <<>>]
        \* if font_size is not None: self.set_font_size(font_size)
        ELSE [raised |-> "none", pdf |-> pdf, call |-> call,
              drawn |-> <<[txt |-> c.txt, size |-> size]>>]

\* DaysManager.render_week(metrics, week) for a timetable with the labels
\* tw: the context variables are set, the label of the week is drawn in
\* the week font in a cell as wide as the wider label plus 2 * week_margin,
\* the font and the context variables are put back.  FPDF.use_font_face is
\* library code: whether it puts the font back when its body raises is
\* the input restores.
DaysManager_render_week(pdf, weeks, tw, week, sw, raises, restores) ==
    LET inside == [pdf EXCEPT !.font_size_pt = Frac(week_font_size, 1)]
        week_width == Max({sw.left_week, sw.right_week}) + c_margin
        label == IF week = Week_LEFT THEN tw.left_week ELSE tw.right_week
        width == IF week = Week_LEFT THEN sw.left_week ELSE sw.right_week
        done == PatchedFPDF_cell(inside, tw,
                                 [w |-> Val(week_width), x |-> 0,
                                  txt |-> label, str_width |-> width,
                                  raises |-> raises])
    IN  IF done.raised # "none"
        THEN [raised |-> done.raised,
              pdf |-> IF restores
                      THEN [done.pdf EXCEPT !.font_size_pt = pdf.font_size_pt]
                      ELSE done.pdf,
              weeks |-> tw, call |-> done.call, drawn |-> done.drawn]
        ELSE [raised |-> "none",
              pdf |-> [done.pdf EXCEPT !.font_size_pt = pdf.font_size_pt],
              weeks |-> weeks, call |-> done.call, drawn |-> done.drawn]

\* self.pdf.l_margin += self.settings.hours_width
gutter_push(pdf, hours_width) == [pdf EXCEPT !.l_margin = @ + hours_width]

\* the mutant of gutter_pop: the margin is left as it is
gutter_pop_skipped(pdf, hours_width) == pdf

\* self.pdf.l_margin -= self.settings.hours_width
gutter_pop(pdf, hours_width) == [pdf EXCEPT !.l_margin = @ - hours_width]

\* TimetableRenderer.render(pdf) for the document doc: the title, the font
\* of the grid, the hours, the gutter pushed into l_margin, the heading of
\* every day in a cell of the width of a day, the gutter popped.  doc.before
\* says whether the title or the hours raise, doc.days holds the heading of
\* each day (its measured width, whether drawing it raises) and
\* doc.restores whether the library's context managers put the font back
\* when their body raises.  seen lists l_margin at each call of days.render.
TimetableRenderer_render_pdf(pdf, weeks, doc) ==
    LET Restored(p, size) ==
            IF doc.restores THEN [p EXCEPT !.font_size_pt = size] ELSE p
        \* with use_font_face(FontFace(emphasis="B", size_pt=28))
        titled == PatchedFPDF_cell(
                      [pdf EXCEPT !.font_size_pt = Frac(28, 1)], weeks,
                      [w |-> Val(0), x |-> TitleX, txt |-> <<"T">>,
                       str_width |-> 6000,
                       raises |-> doc.before = "title raises"])
        \* self.pdf.set_font("", "", 12)
        grid == [pdf EXCEPT !.font_size_pt = Frac(DefaultFontSize, 1)]
        pushed == gutter_push(grid, doc.hours_width.val)
        n == Len(doc.days)
        day_width == (PageWidth - pushed.l_margin - r_margin) \div n
        RECURSIVE Days(_, _, _)
        Days(i, p, seen) ==
            IF i > n
            \* self.pdf.l_margin -= self.settings.hours_width
            THEN [raised |-> "none",
                  pdf |-> gutter_pop(p, doc.hours_width.val),
                  weeks |-> weeks, seen |-> seen]
            ELSE LET done == PatchedFPDF_cell(
                                 p, weeks,
                                 [w |-> Val(day_width), x |-> p.l_margin,
                                  txt |-> <<"M", "o", "n">>,
                                  str_width |-> doc.days[i].str_width,
                                  raises |-> doc.days[i].raises])
                 IN  IF done.raised # "none"
                     THEN [raised |-> done.raised,
                           pdf |-> Restored(done.pdf, p.font_size_pt),
                           weeks |-> weeks,
                           seen |-> Append(seen, p.l_margin)]
                     ELSE Days(i + 1, done.pdf, Append(seen, p.l_margin))
    IN  IF titled.raised # "none"
        THEN [raised |-> titled.raised,
              pdf |-> Restored(titled.pdf, pdf.font_size_pt),
              weeks |-> weeks, seen |-> <<>>]
        ELSE IF doc.before = "hours raise"
        THEN [raised |-> "Exception", pdf |-> grid, weeks |-> weeks,
              seen |-> <<>>]
        ELSE IF ~doc.hours_width.set
        THEN [raised |-> "TypeError", pdf |-> grid, weeks |-> weeks,
              seen |-> <<>>]
        ELSE Days(1, pushed, <<>>)

\* the texts of the cells: none, a lesson name, a name ending in a colon,
\* an hour of the axis, a week label
PdfTexts ==
    {<<>>, <<"M", "a", "t", "h", "s">>, <<"N", "a", "m", "e", ":">>,
     <<"8", ":", "0", "0">>, <<"A">>}

\* the calls of cell: no width, the rest of the line, a width of about
\* 179 mm; a text measures 100 mm or 530 mm, the empty text measures 0
PdfCells ==
    {c \in [w : {IsNone, Val(0), Val(10720)}, x : {TitleX}, txt : PdfTexts,
            str_width : {0, 6000, 31800}, raises : BOOLEAN] :
        (c.txt = <<>>) <=> (c.str_width = 0)}

\* the labels of the weeks of a timetable and their measured widths
WeekLabels == [left_week |-> <<"A">>, right_week |-> <<"B">>]
WeekLabelWidths ==
    {[left_week |-> 240, right_week |-> 300],
     [left_week |-> 300, right_week |-> 240]}

\* the headings of the days: one that fits, one that is too wide, one that
\* is too wide and whose drawing raises
DayCells ==
    {[str_width |-> 3000, raises |-> FALSE],
     [str_width |-> 20000, raises |-> FALSE],
     [str_width |-> 20000, raises |-> TRUE]}

\* the documents: the days that render never reaches are left out (those
\* after a heading that raises, and all of them when the title or the hours
\* raise or hours_width is None), and restores is an input only when a cell
\* raises
PdfDocuments ==
    {doc \in [hours_width : {IsNone, Val(600), Val(900)},
              before : {"returns", "title raises", "hours raise"},
              days : SeqUpTo(DayCells, MaxPdfDays),
              restores : BOOLEAN] :
        LET n == Len(doc.days)
            loops == doc.before = "returns" /\ doc.hours_width.set
        IN  /\ ~loops => n = 0
            /\ \A i \in 1..n : doc.days[i].raises => i = n
            /\ ~doc.restores =>
                   \/ doc.before = "title raises"
                   \/ n > 0 /\ doc.days[n].raises}

\* the pdf object and the context variables as the last operation left
\* them, with the number of operations and of documents so far
PdfNow ==
    IF hop = "none"
    THEN [pdf |-> NewPdf, weeks |-> NoWeeks, ops |-> 0, docs |-> 0]
    ELSE hout.now

PdfOp(op, operands, out, weeks, docs) ==
    /\ PdfNow.ops < MaxPdfOps
    /\ HourOp(op, <<PdfNow>> \o operands,
              [out |-> out,
               now |-> [pdf |-> out.pdf, weeks |-> weeks,
                        ops |-> PdfNow.ops + 1, docs |-> docs]])

Cell ==
    \E c \in PdfCells :
        PdfOp("cell", <<c>>, PatchedFPDF_cell(PdfNow.pdf, PdfNow.weeks, c),
              PdfNow.weeks, PdfNow.docs)

RenderWeek ==
    \E week \in {Week_LEFT, Week_RIGHT}, sw \in WeekLabelWidths,
       raises \in BOOLEAN, restores \in BOOLEAN :
        /\ restores \/ raises
        /\ LET out == DaysManager_render_week(PdfNow.pdf, PdfNow.weeks,
                                              WeekLabels, week, sw, raises,
                                              restores)
           IN  PdfOp("week", <<week, sw>>, out, out.weeks, PdfNow.docs)

RenderPdf ==
    \E doc \in PdfDocuments :
        LET out == TimetableRenderer_render_pdf(PdfNow.pdf, PdfNow.weeks, doc)
        IN  PdfOp("render", <<doc>>, out, out.weeks, PdfNow.docs + 1)

NextPdf == Cell \/ RenderWeek \/ RenderPdf

SpecPdf == InitHour /\ [][NextPdf]_vars

(***************************************************************************)
(* The classification of the lines of a text by the documented priority    *)
(* list, computed from the text alone: this is what the properties below   *)
(* compare the parser with.                                                *)
(***************************************************************************)
IsSkipped(line) == Len(line) = 0 \/ line[1] = "#"

\* line j lies inside the config block of text d: line 1 is a rule and no
\* rule closes the block before line j
InConfigBlock(d, j) ==
    /\ j > 1
    /\ is_hr(d[1])
    /\ \A k \in 2..(j - 1) : ~is_hr(d[k])

RuleOf(d, j) ==
    IF IsSkipped(d[j]) THEN "blank or comment"
    ELSE IF j = 1 /\ is_hr(d[j]) THEN "config begin"
    ELSE IF InConfigBlock(d, j) /\ is_hr(d[j]) THEN "config end"
    ELSE IF InConfigBlock(d, j) THEN "config option"
    ELSE IF get_lesson_matches(d[j]) THEN "lesson"
    ELSE IF is_hr(d[j]) THEN "rule"
    ELSE "day name"

\* the positions of S in increasing order
Sorted(S) ==
    [n \in 1..Cardinality(S) |->
        CHOOSE x \in S : Cardinality({y \in S : y < x}) = n - 1]

RulePositions(d) == Sorted({j \in 1..Len(d) : RuleOf(d, j) = "rule"})

\* the last day-name line before line j (0 when there is none)
NameBefore(d, j) ==
    LET names == {k \in 1..(j - 1) : RuleOf(d, k) = "day name"} IN
    IF names = {} THEN 0 ELSE CHOOSE k \in names : \A n \in names : n <= k

\* the first day-name line after line j (Len(d) + 1 when there is none)
NameAfter(d, j) ==
    LET names == {k \in (j + 1)..Len(d) : RuleOf(d, k) = "day name"} IN
    IF names = {} THEN Len(d) + 1 ELSE Min(names)

\* the lesson lines between rule line r and the next day-name line
LessonPositions(d, r) ==
    Sorted({j \in (r + 1)..(NameAfter(d, r) - 1) : RuleOf(d, j) = "lesson"})

\* a day is open after the first j lines of d: a rule line follows the last
\* day-name line
DayOpenAfter(d, j) ==
    LET n == NameBefore(d, j + 1) IN
    n # 0 /\ \E r \in (n + 1)..j : RuleOf(d, r) = "rule"

\* a step of the parser read line i, the last line of data'
ReadsLine == Len(data') = Len(data) + 1
NewLine == data'[Len(data')]
RaisedParseErrorAt(i) ==
    /\ pc' = "raised"
    /\ err'.type = "ParseError"
    /\ "line" \in DOMAIN err'
    /\ err'.line = i

(***************************************************************************)
(* C1.  Day-opening protocol.  A line that reaches the horizontal-rule      *)
(* rule (a rule line that is neither the config-begin rule of line 1 nor    *)
(* read in config mode) appends exactly one Day, named by the pending day   *)
(* name, to the end of timetable.days iff a day name is pending and no Day  *)
(* exists for it; in any other state it raises ParseError.  A day-name line *)
(* read while a day name is pending without its rule raises ParseError.  A  *)
(* Day is created by no other step: the line before the rule, blank and     *)
(* comment lines aside, is the day-name line that names the new Day.        *)
(***************************************************************************)
C1_Step ==
    ReadsLine =>
        LET i == Len(data')
            pending == current_day_name # None /\ current_day = 0
        IN  /\ RuleOf(data', i) = "rule" =>
                IF pending
                THEN /\ days' = Append(days, Day(current_day_name))
                     /\ pc' = "parsing"
                ELSE /\ RaisedParseErrorAt(i)
                     /\ days' = days
            /\ (RuleOf(data', i) = "day name" /\ pending) =>
                    RaisedParseErrorAt(i) /\ days' = days
            /\ Len(days') # Len(days) =>
                /\ RuleOf(data', i) = "rule"
                /\ Len(days') = Len(days) + 1
                /\ \E n \in 1..(i - 1) :
                    /\ RuleOf(data', n) = "day name"
                    /\ data'[n] = days'[Len(days')].name
                    /\ \A k \in (n + 1)..(i - 1) : IsSkipped(data'[k])

C1_DayOpeningProtocol == [][C1_Step]_vars

\* two days were opened, each by its day name and rule
C1_Witness ==
    /\ pc = "parsing"
    /\ Len(days) = 2
    /\ days[1].name = LineLeftA
    /\ days[2].name = LineMon
    /\ data[Len(data)] = LineRule3

(***************************************************************************)
(* C2.  A line that reaches the lesson rule while no Day is open (no day    *)
(* name read yet, or a day name not yet followed by its rule) raises        *)
(* ParseError carrying that line's 1-based number, and the parse returns    *)
(* no Timetable: a parse that returned read every lesson line with a Day    *)
(* open.                                                                   *)
(***************************************************************************)
C2_Step ==
    (ReadsLine /\ RuleOf(data', Len(data')) = "lesson"
               /\ ~DayOpenAfter(data, Len(data))) =>
        /\ RaisedParseErrorAt(Len(data'))
        /\ days' = days

C2_Returned ==
    pc = "returned" =>
        \A j \in 1..Len(data) :
            RuleOf(data, j) = "lesson" => DayOpenAfter(data, j - 1)

C2_LessonWithoutDay == [][C2_Step]_vars /\ []C2_Returned

\* a lesson line on line 2, after a day name with no rule, raised at line 2
C2_Witness ==
    /\ pc = "raised"
    /\ Len(data) = 2
    /\ data[1] = LineMon
    /\ data[2] = LessonPlain
    /\ err.type = "ParseError"
    /\ err.line = 2

(***************************************************************************)
(* C3.  Week labels.  A line that reaches the lesson rule with a non-empty   *)
(* week token equal to neither the configured left_week nor right_week      *)
(* raises ParseError at that line.  In every returned Timetable             *)
(* each Lesson with week LEFT (RIGHT) was written with a token equal to     *)
(* timetable.left_week (right_week), and a lesson written with no week      *)
(* token has week ALWAYS.                                                   *)
(***************************************************************************)
\* the week token written on lesson line j of text d
TokenAt(d, j) == get_lesson(d[j]).week

C3_Step ==
    (/\ ReadsLine
     /\ RuleOf(data', Len(data')) = "lesson"
     /\ Truthy(TokenAt(data', Len(data')))
     /\ TokenAt(data', Len(data')) # dict_get(config, KeyLeftWeek, None)
     /\ TokenAt(data', Len(data')) # dict_get(config, KeyRightWeek, None)) =>
        /\ RaisedParseErrorAt(Len(data'))
        /\ days' = days

C3_Returned ==
    pc = "returned" =>
        \A k \in 1..Len(days) :
            LET at == LessonPositions(data, RulePositions(data)[k]) IN
            /\ Len(at) = Len(days[k].lessons)
            /\ \A n \in 1..Len(at) :
                LET token == TokenAt(data, at[n])
                    week == days[k].lessons[n].week
                IN  /\ week \in {Week_ALWAYS, Week_LEFT, Week_RIGHT}
                    /\ week = Week_LEFT => token = tt.left_week
                    /\ week = Week_RIGHT => token = tt.right_week
                    /\ ~Truthy(token) => week = Week_ALWAYS

C3_WeekLabels == [][C3_Step]_vars /\ []C3_Returned

\* a returned timetable holds a lesson of the left week, written with the
\* configured label
C3_Witness ==
    /\ pc = "returned"
    /\ tt.left_week = <<"A">>
    /\ Len(days) = 1
    /\ Len(days[1].lessons) = 1
    /\ days[1].lessons[1].week = Week_LEFT
    /\ data[Len(data)] = LessonA

(***************************************************************************)
(* C4.  The end of the input reached in config mode is reported as a        *)
(* ParseError that carries a line number and a message.                     *)
(***************************************************************************)
C4_Step ==
    (pc = "parsing" /\ in_config /\ data' = data /\ pc' # pc) =>
        /\ pc' = "raised"
        /\ err'.type = "ParseError"
        /\ "line" \in DOMAIN err'
        /\ "error" \in DOMAIN err'

C4_UnterminatedConfigIsParseError == [][C4_Step]_vars

(***************************************************************************)
(* C5.  Config mode is entered only by a horizontal rule on line 1; once    *)
(* it has been left it is never entered again; and the config map is not    *)
(* modified once a line has reached the day-name rule or the lesson rule.   *)
(***************************************************************************)
C5_Step ==
    /\ (~in_config /\ in_config') =>
            Len(data') = 1 /\ is_hr(data'[1])
    /\ (~in_config /\ Len(data) >= 1) => ~in_config'
    /\ (\E j \in 1..Len(data) : RuleOf(data, j) \in {"day name", "lesson"}) =>
            config' = config /\ ~in_config'

C5_ConfigOnlyFromLineOne == [][C5_Step]_vars

\* a config block was read and left, then a day name and a rule on a later
\* line were read
C5_Witness ==
    /\ pc = "parsing"
    /\ ~in_config
    /\ KeyLeftWeek \in DOMAIN config
    /\ current_day_name = LineMon
    /\ current_day = 1
    /\ data[Len(data)] = LineRule3

(***************************************************************************)
(* C6.  Every line is handled by the first matching rule of the priority    *)
(* list.  Blank and comment lines change no parser state in any mode.  In   *)
(* config mode no line adds a Day, adds a Lesson or sets a pending day      *)
(* name: a line that is not skipped closes the block, stores an option or   *)
(* raises.                                                                  *)
(***************************************************************************)
ParserOf(rule) ==
    CASE rule = "blank or comment" -> "parse_empty_line_or_comment"
      [] rule = "config begin" -> "parse_config_begin"
      [] rule = "config end" -> "parse_config_end"
      [] rule = "config option" -> "parse_config_option"
      [] rule = "lesson" -> "parse_lesson"
      [] rule = "rule" -> "parse_hr"
      [] rule = "day name" -> "parse_day_name"

C6_Step ==
    ReadsLine =>
        /\ taken'[Len(data')] = ParserOf(RuleOf(data', Len(data')))
        /\ IsSkipped(NewLine) =>
                UNCHANGED <<in_config, config, current_day_name, current_day,
                            days, tt, settings, warned, pc, err>>
        /\ in_config =>
            /\ UNCHANGED <<days, current_day_name, current_day>>
            /\ ~IsSkipped(NewLine) =>
                \/ is_hr(NewLine) /\ ~in_config' /\ config' = config
                \/ /\ in_config'
                   /\ pc' = "parsing"
                   /\ strip(partition(NewLine, ":")[1]) \in DOMAIN config'
                \/ RaisedParseErrorAt(Len(data'))

C6_FirstMatchingRule == [][C6_Step]_vars

\* in config mode a lesson-shaped line was stored as an option and a comment
\* line was skipped
C6_Witness ==
    /\ pc = "parsing"
    /\ in_config
    /\ Len(data) = 3
    /\ data[2] = LessonA
    /\ data[3] = LineComment
    /\ DOMAIN config = {<<"8">>}
    /\ days = <<>>

(***************************************************************************)
(* C7.  With lint enabled, a day-name line read after a day whose name      *)
(* contains a colon was opened and received no lesson emits the "Empty day" *)
(* ParseWarning, and parsing continues.                                     *)
(***************************************************************************)
C7_Step ==
    (/\ ReadsLine
     /\ lint
     /\ RuleOf(data', Len(data')) = "day name"
     /\ current_day # 0
     /\ Contains(days[current_day].name, ":")
     /\ days[current_day].lessons = <<>>) =>
        /\ warned' = Append(warned, ParseWarning(Len(data'), "Empty day"))
        /\ pc' = "parsing"

C7_EmptyDayWarning == [][C7_Step]_vars

(***************************************************************************)
(* C8.  In a returned Timetable the days are in the order of their rule     *)
(* lines, the lessons of each Day are exactly the lesson lines between that *)
(* day's rule line and the next day-name line, in file order, and every     *)
(* lesson line belongs to exactly one Day.                                  *)
(***************************************************************************)
RECURSIVE CountLessons(_, _)
CountLessons(ds, k) ==
    IF k = 0 THEN 0 ELSE CountLessons(ds, k - 1) + Len(ds[k].lessons)

C8_DaysAndLessonsInFileOrder ==
    pc = "returned" =>
        LET rules == RulePositions(data) IN
        /\ Len(days) = Len(rules)
        /\ \A k \in 1..Len(days) :
            LET at == LessonPositions(data, rules[k]) IN
            /\ days[k].name = data[NameBefore(data, rules[k])]
            /\ Len(days[k].lessons) = Len(at)
            /\ \A n \in 1..Len(at) :
                LET match == get_lesson(data[at[n]]) IN
                days[k].lessons[n] = LessonOf(match, WeekOf(match.week))
        /\ CountLessons(days, Len(days))
             = Cardinality({j \in 1..Len(data) : RuleOf(data, j) = "lesson"})

\* two days, the first with two different lessons in file order and the
\* second empty
C8_Witness ==
    /\ pc = "returned"
    /\ Len(days) = 2
    /\ Len(days[1].lessons) = 2
    /\ days[1].lessons[1].name = <<>>
    /\ days[1].lessons[2].name = <<"M">>
    /\ days[2].lessons = <<>>

(***************************************************************************)
(* C9.  Every Hour constructor (hour/minute pair, "H:MM" or "HhMM" string,  *)
(* raw total) yields a total in [0, 1440), and the total is the floor       *)
(* modulo of the minutes given: raw = 1440 * q + total for an integer q,    *)
(* also when raw is negative.                                               *)
(***************************************************************************)
\* x mod 1440 = r, stated without the modulo operator
IsFloorMod(x, r, maxq) ==
    /\ r \in 0..1439
    /\ \E q \in (0 - maxq)..maxq : x = 1440 * q + r

C10_ArithmeticWraps ==
    /\ hop = "add" => IsFloorMod(hin[1] + hin[2], hout, 2)
    /\ hop = "sub" => /\ IsFloorMod(hin[1] - hin[2], hout, 2)
                      /\ Hour_add(hout, hin[2]) = hin[1]
    /\ hop = "mul" => IsFloorMod(hin[1] * hin[2], hout, MaxScalar + 1)

\* 23:59 + 0:02 = 0:01
C10_Witness == hop = "add" /\ hin = <<23 * 60 + 59, 2>> /\ hout = 1

(***************************************************************************)
(* C11.  For every Hour h and every interval i with 0 < i < 24h, h.ceil(i)  *)
(* rounds up: the result is a multiple of i's minutes, it is >= h, it is    *)
(* less than i above h, and it is h when h is an exact multiple of i.       *)
(* This is the statement as the specification makes it; the code wraps      *)
(* past midnight, so it fails for h above the last multiple of the day.     *)
(***************************************************************************)
RoundsUp(h, i, r) ==
    /\ r % i = 0
    /\ r >= h
    /\ r - h < i
    /\ h % i = 0 => r = h

C11_CeilRoundsUp == hop = "ceil" => RoundsUp(hin[1], hin[2], hout)

\* some multiple of i lies in [h, 24h)
HasMultipleAbove(h, i) == \E t \in h..(24 * 60 - 1) : t % i = 0

(***************************************************************************)
(* C11, amended.  h.ceil(i) rounds up whenever a multiple of i lies in     *)
(* [h, 24h); otherwise the sum floor + i passes midnight and the result is  *)
(* floor + i - 24h, which is earlier than h.                                *)
(***************************************************************************)
C11_CeilRoundsUpBeforeMidnight ==
    hop = "ceil" =>
        LET h == hin[1]
            i == hin[2]
        IN  IF HasMultipleAbove(h, i)
            THEN RoundsUp(h, i, hout)
            ELSE /\ hout + 24 * 60 - i <= h
                 /\ (hout + 24 * 60 - i) % i = 0
                 /\ h - (hout + 24 * 60 - i) < i
                 /\ hout < h

\* 23:30 rounded up to the hour is 0:00
C11_Witness == hop = "ceil" /\ hin = <<23 * 60 + 30, 60>> /\ hout = 0

(***************************************************************************)
(* C12.  For every Hour h and every interval i with 0 < i < 24h,            *)
(* h.floor(i) is the largest multiple of i's minutes that is <= h: it is a  *)
(* multiple, floor <= h, h - floor < i, and exact multiples stay fixed.     *)
(***************************************************************************)
C12_FloorIsLargestMultiple ==
    hop = "floor" =>
        LET h == hin[1]
            i == hin[2]
        IN  /\ hout % i = 0
            /\ hout <= h
            /\ h - hout < i
            /\ \A t \in hout..h : t % i = 0 => t = hout
            /\ h % i = 0 => hout = h

\* 8:10 rounded down to 25 minutes is 7:55
C12_Witness == hop = "floor" /\ hin = <<8 * 60 + 10, 25>> /\ hout = 7 * 60 + 55

(***************************************************************************)
(* C13.  Pause.intersection of any number n >= 1 of Pauses returns          *)
(* Pause(latest of all starts, earliest of all ends), or None when that end *)
(* is earlier than that start; with no operands it returns None.            *)
(***************************************************************************)
\* the simultaneous intersection of a non-empty sequence of pauses
SimultaneousIntersection(pauses) ==
    LET latest == Max({pauses[k].start : k \in 1..Len(pauses)})
        earliest == Min({pauses[k].end : k \in 1..Len(pauses)})
    IN  IF earliest < latest THEN NoPause ELSE Pause(latest, earliest)

C13_IntersectionOfAllOperands ==
    hop = "intersection" =>
        IF Len(hin[1]) = 0 THEN hout = NoPause
        ELSE hout = SimultaneousIntersection(hin[1])

(***************************************************************************)
(* C14.  PausesContainer.intersection, for any list of days (a single day   *)
(* included), returns the intersection of the first combination in          *)
(* Cartesian-product order whose simultaneous intersection is non-empty     *)
(* and lies within [start_hour, end_hour], and None iff no combination      *)
(* qualifies; the returned pause is contained in one pause of every day.    *)
(***************************************************************************)
\* the combination has a non-empty intersection within the container's bounds
Qualifies(self, combo) ==
    /\ Len(combo) > 0
    /\ LET i == SimultaneousIntersection(combo)
       IN  /\ i.kind = "Pause"
           /\ i.start < i.end
           /\ self.start_hour <= i.start
           /\ i.end <= self.end_hour

FirstQualifying(self) ==
    LET combos == itertools_product(self.days)
        good == {k \in 1..Len(combos) : Qualifies(self, combos[k])}
    IN  IF good = {} THEN NoPause
        ELSE SimultaneousIntersection(combos[Min(good)])

C14_FirstQualifyingCombination ==
    hop = "container" =>
        /\ hout = FirstQualifying(hin[1])
        /\ hout.kind = "Pause" =>
               \A d \in 1..Len(hin[1].days) :
                   \E k \in 1..Len(Pauses_iter(hin[1].days[d])) :
                       Pause_contains(Pauses_iter(hin[1].days[d])[k], hout)

(***************************************************************************)
(* C15.  Pauses.__contains__(x), for x an Hour or a Pause, is True when    *)
(* the day has no explicit pauses; otherwise it is True iff x is contained  *)
(* in at least one pause yielded by iterating the Pauses object (leading    *)
(* boundary pause, explicit pauses, trailing boundary pause).               *)
(***************************************************************************)
C15_ContainsAgreesWithIteration ==
    hop = "contains" =>
        LET self == hin[1]
            x == hin[2]
        IN  IF self.pauses = <<>> THEN hout = TRUE
            ELSE hout = (\E k \in 1..Len(Pauses_iter(self)) :
                            Pause_contains(Pauses_iter(self)[k], x))

\* 8:00 is in the day 8:00 to 17:00 with a pause 12:00 to 17:00: it is in
\* the leading boundary pause
C15_Witness ==
    /\ hop = "contains"
    /\ hin[1] = Pauses(8 * 60, 17 * 60, <<Pause(12 * 60, 17 * 60)>>)
    /\ hin[2] = HourValue(8 * 60)
    /\ hout = TRUE

(***************************************************************************)
(* C16.  Settings.merge(o1, ..., on): for every field the merged value is   *)
(* the value of the last argument whose value for that field is not None;   *)
(* if every argument has None there, it is the class default.  A None field *)
(* never overrides an earlier value that is not None.                       *)
(***************************************************************************)
C16_MergeLastNotNone ==
    hop = "merge" =>
        LET objs == hin[1]
        IN  \A n \in 1..Len(SettingsFields) :
                LET name == SettingsFields[n]
                IN  /\ \A k \in 1..Len(objs) :
                           (/\ objs[k][name].set
                            /\ \A j \in (k + 1)..Len(objs) :
                                   ~objs[j][name].set)
                               => hout[name] = objs[k][name]
                    /\ (\A k \in 1..Len(objs) : ~objs[k][name].set)
                           => hout[name] = SettingsBase[name]

\* title_shadow = True, then None, then None: the merged value is True
C16_Witness ==
    /\ hop = "merge"
    /\ Len(hin[1]) = 3
    /\ hin[1][1].title_shadow = Val(TRUE)
    /\ hin[1][2].title_shadow = IsNone
    /\ hin[1][3].title_shadow = IsNone
    /\ hout.title_shadow = Val(TRUE)

(***************************************************************************)
(* C17.  The page-local settings are merge(document's parsed Settings,     *)
(* caller Settings) where the caller wins only for the fields it set: a     *)
(* field set by the document's config block (title_shadow: true, or         *)
(* hours_width) is the effective value whenever the caller left that field  *)
(* unset.                                                                   *)
(***************************************************************************)
C17_DocumentFieldEffectiveUnlessCallerSet ==
    hop = "real_main" =>
        LET cfg == hin[1]
            options == hin[2]
        IN  /\ (/\ KeyTitleShadow \in DOMAIN cfg
                /\ "title_shadow" \notin DOMAIN options)
                   => hout.title_shadow =
                          Val(lower(cfg[KeyTitleShadow]) = StrTrue)
            /\ (/\ KeyHoursWidth \in DOMAIN cfg
                /\ "hours_width" \notin DOMAIN options)
                   => hout.hours_width = Val(ParseNat(cfg[KeyHoursWidth]))
            /\ \A name \in DOMAIN options : hout[name] = options[name]

(***************************************************************************)
(* C18.  For every timetable with at least one lesson, the ticks drawn by   *)
(* HoursManager.render(interval) are exactly the multiples of interval t    *)
(* with start_hour <= t <= end_hour, in increasing order from               *)
(* ceil(start_hour) to floor(end_hour); when no such multiple exists        *)
(* nothing is drawn.  Stated for show_first_last on, and for the calls      *)
(* that return.                                                             *)
(***************************************************************************)
\* the elements of the finite set S of numbers, in increasing order
RECURSIVE Increasing(_)
Increasing(S) ==
    IF S = {} THEN <<>> ELSE <<Min(S)>> \o Increasing(S \ {Min(S)})

\* the multiples of interval from start_hour to end_hour
TicksBetween(self, interval) ==
    Increasing({t \in self.start_hour.val..self.end_hour.val :
                    t % interval = 0})

C18_TicksAreTheMultiplesInRange ==
    (/\ hop = "render"
     /\ AllLessons(hin[1]) # <<>>
     /\ hin[2].show_first_last
     /\ hout.raised = "none")
        => [k \in 1..Len(hout.ticks) |-> hout.ticks[k].hour]
               = TicksBetween(HoursManager(hin[1]), hin[3])

(***************************************************************************)
(* C19.  For every timetable with at least one lesson and no wrap_hour,     *)
(* y_for_hour(start_hour) is the grid top and y_for_hour(end_hour) is the   *)
(* grid top + eff_day_height exactly, whatever the start and end times are  *)
(* (day lengths that are not a whole number of hours, or shorter than one   *)
(* hour, included).                                                         *)
(***************************************************************************)
C19_AxisEndsOnTheGrid ==
    (/\ hop = "y_for_hour"
     /\ AllLessons(hin[1]) # <<>>
     /\ ~hin[2].wrap_hour.set)
        => LET self == HoursManager(hin[1])
           IN  /\ hin[3] = self.start_hour.val
                      => hout.raised = "none" /\ hout.num = 0
               /\ hin[3] = self.end_hour.val
                      => hout.raised = "none" /\ hout.num = hout.den

(***************************************************************************)
(* C20.  For a timetable with no lessons, HoursManager has start_hour =     *)
(* end_hour = None, render() draws no tick and raises no error, and         *)
(* rendering the whole document never evaluates y_for_hour or day_length.   *)
(***************************************************************************)
C20_NoLessonsNoAxis ==
    /\ (hop = "render" /\ AllLessons(hin[1]) = <<>>)
           => /\ HoursManager(hin[1]) = [start_hour |-> IsNone,
                                         end_hour |-> IsNone]
              /\ hout.ticks = <<>>
              /\ hout.raised = "none"
    /\ (hop = "document" /\ AllLessons(hin[1]) = <<>>)
           => /\ hout.ticks = <<>>
              /\ hout.calls = <<>>
              /\ hout.raised \in {"none", "TypeError"}

\* a document of two days without lessons, rendered with an hours_width
C20_Witness ==
    /\ hop = "document"
    /\ hin[1] = << <<>>, <<>> >>
    /\ hin[2].hours_width = Val(10)
    /\ hout = Drawn(<<>>, <<>>)

(***************************************************************************)
(* C27.  After any prefix of lines that raised no error: if current_day is  *)
(* not None then current_day_name is not None, current_day is the last      *)
(* element of timetable.days and its name is current_day_name; and the      *)
(* number of days is the number of rule lines accepted outside config mode  *)
(* (the rule lines that are neither line 1 nor the end of the config).      *)
(***************************************************************************)
C27_CurrentDayIsLastDay ==
    pc # "raised" =>
        /\ current_day # 0 =>
               /\ current_day_name # None
               /\ current_day = Len(days)
               /\ days[current_day].name = current_day_name
        /\ Len(days) =
               Cardinality({j \in 1..Len(data) : RuleOf(data, j) = "rule"})

\* two days were opened and the second one is the current day
C27_Witness ==
    /\ pc = "parsing"
    /\ Len(days) = 2
    /\ current_day = 2
    /\ days[1].name # days[2].name

(***************************************************************************)
(* C28.  The lint flag only affects warnings: the same text parsed with     *)
(* lint=True and with lint=False either raises the same fatal error at the  *)
(* same line in both calls, or returns in both calls with equal timetables  *)
(* (title, week labels, days), settings and config maps.                    *)
(***************************************************************************)
C28_LintOnlyAffectsWarnings ==
    (hop = "rerun" /\ pc # "parsing") =>
        /\ pc = hin.pc
        /\ pc = "raised" => err = hin.err
        /\ pc = "returned" =>
               /\ tt = hin.tt
               /\ days = hin.days
               /\ settings = hin.settings
               /\ config = hin.config

\* the call with lint=True warned, the call with lint=False on the same
\* text did not, and both returned a timetable with a day
C28_Witness ==
    /\ hop = "rerun"
    /\ pc = "returned"
    /\ ~lint
    /\ hin.warned # <<>>
    /\ warned = <<>>
    /\ data = hin.data
    /\ Len(days) >= 1

(***************************************************************************)
(* C29.  With a wrap_hour configured, y_for_hour is monotone: every lesson  *)
(* with start <= end gets a vertical band of non-negative height, that is   *)
(* end_y >= start_y.                                                       *)
(***************************************************************************)
C29_BandHasNonNegativeHeight ==
    (/\ hop = "band"
     /\ hin[2].wrap_hour.set
     /\ hin[3].start <= hin[3].end
     /\ hout.raised = "none") =>
        hout.end_y.num * hout.start_y.den >= hout.start_y.num * hout.end_y.den

(***************************************************************************)
(* C21.  When the week chip is shown, LessonMetrics.calculate places it at  *)
(* the bottom (week_y_pos = end_y - week_height, bottom_padding increased   *)
(* by week_height / 2.5) only if the bottom padding share is at least half  *)
(* the chip height; otherwise it places it at the top (week_y_pos =         *)
(* start_y, top_padding increased by week_height / 2.5).                    *)
(***************************************************************************)
C21_ChipAtBottomOnlyIfRoom ==
    (hop = "calculate" /\ hin[2] /\ hout.raised = "none") =>
        LET before == hin[1]
            after == hout.metrics
            share == after.top_bottom_padding + before.bottom_padding
        IN  IF 2 * share >= week_height
            THEN /\ after.week_y_pos = before.end_y - week_height
                 /\ after.bottom_padding =
                        before.bottom_padding + (week_height * 2) \div 5
                 /\ after.top_padding = before.top_padding
            ELSE /\ after.week_y_pos = before.start_y
                 /\ after.top_padding =
                        before.top_padding + (week_height * 2) \div 5
                 /\ after.bottom_padding = before.bottom_padding

(***************************************************************************)
(* C30.  The layout of a lesson is defined for every lesson the parser can  *)
(* produce and every combination of show_teacher and show_room: a lesson    *)
(* with no non-empty text line (items_n = 0) is laid out without a division *)
(* by zero in LessonMetrics.calculate or render_lesson.                     *)
(***************************************************************************)
C30_LayoutDefinedForEveryLesson ==
    hop = "lesson" => hout.raised = "none"

(***************************************************************************)
(* C22.  Auto-fit in PatchedFPDF.cell: a text that cell does not exempt and *)
(* whose measured width exceeds target_width = w - 2 * c_margin is drawn at *)
(* font size original * target_width / measured_width; after cell returns   *)
(* normally the font size is the original again; a text that fits is drawn  *)
(* at the original size.                                                   *)
(***************************************************************************)
C22_AutoFitSizeAndRestore ==
    (hop = "cell" /\ hout.out.raised = "none") =>
        LET original == hin[1].pdf.font_size_pt
            call == hout.out.call
            txt == call.txt
            size == hout.out.drawn[1].size
            target_width == call.w.val - 2 * c_margin
            ratio == Frac(target_width, call.str_width)
            nonexempt ==
                /\ Len(txt) > 0
                /\ txt \notin {call.weeks.left_week, call.weeks.right_week}
                /\ ~(Len(txt) >= 3 /\ txt[Len(txt) - 2] = ":")
            sized == call.w.set /\ call.w.val # 0
        IN  /\ hout.out.pdf.font_size_pt = original
            /\ (sized /\ nonexempt /\ call.str_width > target_width) =>
                   size.num * original.den * ratio.den
                       = original.num * ratio.num * size.den
            /\ (sized /\ call.str_width <= target_width) => size = original

\* a lesson name too wide for its cell was drawn smaller than the font of
\* the pdf, which is the original one again
C22_Witness ==
    /\ hop = "cell"
    /\ hout.out.raised = "none"
    /\ hout.out.call.txt = <<"M", "a", "t", "h", "s">>
    /\ hout.out.call.w = Val(10720)
    /\ hout.out.call.str_width = 31800
    /\ hout.out.drawn[1].size = Frac(DefaultFontSize, 3)
    /\ hout.out.pdf.font_size_pt = Frac(DefaultFontSize, 1)

\* a cell call of the last operation made the text smaller than the font
\* it found
CellShrunk ==
    /\ hout.out.raised = "none"
    /\ hout.out.drawn[1].size # hout.out.call.font_size_pt

\* the text of the last cell call is wider than w - 2 * c_margin
CellOverWide ==
    /\ hout.out.call.w.set
    /\ hout.out.call.w.val # 0
    /\ hout.out.call.str_width > hout.out.call.w.val - 2 * c_margin

\* the text of the last cell call is a week label being rendered
CellIsWeekLabel ==
    /\ Len(hout.out.call.txt) > 0
    /\ hout.out.call.txt \in {hout.out.call.weeks.left_week,
                              hout.out.call.weeks.right_week}

(***************************************************************************)
(* C23.  Auto-fit exemptions, as stated: a text ending in a colon is never  *)
(* shrunk, a text equal to the week label currently being rendered is never *)
(* shrunk, and every other over-wide single-line text is shrunk.            *)
(***************************************************************************)
C23_ExemptIfEndsInColon ==
    (hop \in {"cell", "week"} /\ hout.out.raised = "none") =>
        LET txt == hout.out.call.txt
            exempt == \/ Len(txt) >= 1 /\ txt[Len(txt)] = ":"
                      \/ CellIsWeekLabel
        IN  /\ exempt => ~CellShrunk
            /\ (~exempt /\ CellOverWide) => CellShrunk

(***************************************************************************)
(* C23, amended.  A text whose third character from the end is a colon (an  *)
(* hour such as 8:00) is never shrunk, a text equal to the left or right    *)
(* week label while render_week draws is never shrunk, and every other      *)
(* over-wide text is shrunk.                                               *)
(***************************************************************************)
C23_ExemptIfColonThirdFromEnd ==
    (hop \in {"cell", "week"} /\ hout.out.raised = "none") =>
        LET txt == hout.out.call.txt
            exempt == \/ Len(txt) >= 3 /\ txt[Len(txt) - 2] = ":"
                      \/ CellIsWeekLabel
        IN  /\ exempt => ~CellShrunk
            /\ (~exempt /\ CellOverWide) => CellShrunk

\* an hour of the axis too wide for its cell was drawn at the size of the
\* font
C23_Witness ==
    /\ hop = "cell"
    /\ hout.out.call.txt = <<"8", ":", "0", "0">>
    /\ CellOverWide
    /\ hout.out.raised = "none"
    /\ ~CellShrunk

(***************************************************************************)
(* C24.  Scoped changes are restored on every exit path: when the drawing   *)
(* call raises, the font size that PatchedFPDF.cell set for the auto-fit is *)
(* the original again, and when TimetableRenderer.render raises, the width  *)
(* of the gutter is no longer in pdf.l_margin.                              *)
(***************************************************************************)
C24_RestoredWhenDrawingRaises ==
    /\ (hop = "cell" /\ hout.out.raised # "none") =>
           hout.out.pdf.font_size_pt = hin[1].pdf.font_size_pt
    /\ (hop = "render" /\ hout.out.raised # "none") =>
           hout.out.pdf.l_margin = hin[1].pdf.l_margin

(***************************************************************************)
(* C25.  Gutter push/pop: for a numeric hours_width, pdf.l_margin is its    *)
(* value before the call plus hours_width whenever a day is rendered, and   *)
(* is its value before the call again when TimetableRenderer.render         *)
(* returns; this holds for every document rendered on the same pdf.         *)
(***************************************************************************)
C25_GutterPushedThenPopped ==
    (hop = "render" /\ hin[2].hours_width.set) =>
        LET before == hin[1].pdf.l_margin
            seen == hout.out.seen
        IN  /\ \A k \in 1..Len(seen) :
                   seen[k] = before + hin[2].hours_width.val

            /\ hout.out.raised = "none" => hout.out.pdf.l_margin = before

\* the second document on the same pdf had two days and returned
C25_Witness ==
    /\ hop = "render"
    /\ hout.now.docs >= 2
    /\ hin[2].hours_width.set
    /\ hout.out.raised = "none"
    /\ Len(hout.out.seen) = 2
    /\ hout.out.pdf.l_margin = l_margin_default

(***************************************************************************)
(* C26.  Removed-lesson hatch: for every rectangle (x, y, width, height)    *)
(* with positive width and height, every segment drawn by striketrough has  *)
(* both endpoints inside the closed rectangle [x, x+width] x [y, y+height]  *)
(* and keeps a 45-degree slope (x2 - x1 = y2 - y1 >= 0).                    *)
(***************************************************************************)
C26_HatchInsideRectangle ==
    (hop = "striketrough" /\ hin[3] > 0 /\ hin[4] > 0) =>
        LET x == hin[1]
            y == hin[2]
            width == hin[3]
            height == hin[4]
        IN  \A k \in 1..Len(hout.lines) :
                LET l == hout.lines[k]
                IN  /\ x <= l.x1 /\ l.x1 <= x + width
                    /\ x <= l.x2 /\ l.x2 <= x + width
                    /\ y <= l.y1 /\ l.y1 <= y + height
                    /\ y <= l.y2 /\ l.y2 <= y + height
                    /\ l.x2 - l.x1 = l.y2 - l.y1
                    /\ l.x2 - l.x1 >= 0

====
